---- MODULE Spec2Model ----
(***************************************************************************)
(* CortexLab pipeline engine: the three agent graphs (discovery, deep     *)
(* dive, paper), the background tasks that run them, the AgentRun /       *)
(* Artifact / RunEvent tables, startup recovery and the event read path.  *)
(***************************************************************************)
EXTENDS Integers, Sequences, FiniteSets, TLC

(* ---------------------------------------------------------------- bounds *)
MaxRuns == 1
MaxCrashes == 1
MaxEvents == 2
MaxStreams == 1
MaxStreamRuns == 1
MaxPairRuns == 2
MaxResults == 2
MaxQueries == 2
MaxTokens == 6

(* ------------------------------------------------------- value universe *)
\* Python None, and the shapes of JSON values that the code only tests for
\* truthiness or dereferences with .get / iteration.
NONE == "None"
EMPTY_DICT == "{}"
DICT == "{..}"
EMPTY_LIST == "[]"
LIST == "[..]"
STR_LIST == "[str..]"

\* bool(v) for the token values above and for strings
Truthy(v) == v \notin {NONE, EMPTY_DICT, EMPTY_LIST, ""}

\* dict.get(key, default)
Get(d, k, default) == IF k \in DOMAIN d THEN d[k] ELSE default

\* {**state, **upd}
Merge(state, upd) ==
    [k \in (DOMAIN state) \cup (DOMAIN upd) |->
        IF k \in DOMAIN upd THEN upd[k] ELSE state[k]]

Range(s) == {s[i] : i \in DOMAIN s}

VARIABLES
    server,      \* "down" | "up": the host process
    crashes,     \* number of process terminations so far
    settings,    \* API keys present in the process configuration
    runs,        \* agent_runs table, indexed by run id
    task,        \* background task of each run of the table
    artifacts,   \* artifacts table, in insertion order
    run_events,  \* run_events table (a set of rows)
    eventLog,    \* ids of the run_events rows in the order of insertion
    clock,       \* datetime.utcnow() as seen by row defaults
    streams,     \* open SSE requests on /runs/{run_id}/events
    responses,   \* bodies returned by the start requests, in order
    stage,       \* one stage function applied to one input state
    call,        \* one provider call of a stage, attempt by attempt
    retrieval,   \* one retrieval loop of a stage, step by step
    decode,      \* one provider reply on its way through extraction and json.loads
    scenario     \* one pipeline run from its initial state, its search function bound

vars == <<server, crashes, settings, runs, task, artifacts, run_events,
          eventLog, clock, streams, responses, stage, call, retrieval, decode,
          scenario>>

\* the tables, tasks and connections of the running service
engine == <<server, crashes, runs, task, artifacts, run_events, eventLog, clock,
            streams, responses>>

\* what the service's steps leave alone: a stage, a call, a loop in isolation
side == <<stage, call, retrieval, decode, scenario>>

RunIds == 1..Len(runs)

(* ------------------------------------------------- provider reply texts *)
\* A reply text is a sequence of tokens: fences, prose and JSON values.
FenceJson == [t |-> "fence_json"]
Fence == [t |-> "fence"]
Prose == [t |-> "prose"]
JsonTok(v) == [t |-> "json", v |-> v]
\* whitespace, and a language word other than json glued to an opening fence
Whitespace == [t |-> "ws"]
Tag == [t |-> "tag"]

\* JSON values: an object with the given fields, an array, or a scalar
Obj(fields) == [shape |-> "object", fields |-> fields]
Arr(items) == [shape |-> "array", items |-> items]
EmptyObj == Obj(<<>>)

IndexOfFrom(text, from, toks) ==
    IF \E i \in from..Len(text) : text[i].t \in toks
    THEN CHOOSE i \in from..Len(text) :
            /\ text[i].t \in toks
            /\ \A j \in from..(i-1) : text[j].t \notin toks
    ELSE 0

\* content.split(sep)[1].split(fence)[0]: what follows the first sep, up to
\* the next fence (the text of a json-tagged fence contains the bare fence)
AfterFirst(text, sep) ==
    LET i == IndexOfFrom(text, 1, {sep})
        j == IndexOfFrom(text, i + 1, {"fence", "fence_json"})
    IN  IF j = 0 THEN SubSeq(text, i + 1, Len(text))
        ELSE SubSeq(text, i + 1, j - 1)

\* the fence extraction every node inlines before json.loads
ExtractFenced(content) ==
    IF \E i \in DOMAIN content : content[i].t = "fence_json"
    THEN AfterFirst(content, "fence_json")
    ELSE IF \E i \in DOMAIN content : content[i].t = "fence"
    THEN AfterFirst(content, "fence")
    ELSE content

\* str.strip(): the text without its leading and trailing whitespace
RECURSIVE lstrip(_)
lstrip(text) ==
    IF text # <<>> /\ Head(text).t = "ws" THEN lstrip(Tail(text)) ELSE text

RECURSIVE rstrip(_)
rstrip(text) ==
    IF text # <<>> /\ text[Len(text)].t = "ws"
    THEN rstrip(SubSeq(text, 1, Len(text) - 1))
    ELSE text

strip(text) == rstrip(lstrip(text))

\* a decoder that makes an empty object of what it cannot read
json_loads_lenient(text) ==
    LET stripped == strip(text) IN
    IF Len(stripped) = 1 /\ stripped[1].t = "json"
    THEN [ok |-> TRUE, value |-> stripped[1].v]
    ELSE [ok |-> TRUE, value |-> EmptyObj]

\* json.loads(content.strip()): succeeds iff the text is one JSON value
json_loads(text) ==
    LET stripped == strip(text) IN
    IF Len(stripped) = 1 /\ stripped[1].t = "json"
    THEN [ok |-> TRUE, value |-> stripped[1].v]
    ELSE [ok |-> FALSE, value |-> EmptyObj]

\* app.agents.utils.parse_json (used by paper_writer)
parse_json(content) == json_loads(ExtractFenced(content))

\* A provider call either raises (whole fallback chain failed) or returns text
ProviderFail == [ok |-> FALSE, content |-> <<>>]
ProviderText(content) == [ok |-> TRUE, content |-> content]

\* the ways a reply can carry (or fail to carry) the JSON value v
Wrapped(v) == <<Prose, FenceJson, JsonTok(v), Fence, Prose>>
Bare(v) == <<JsonTok(v)>>
Garbage == <<Prose>>

(* ------------------------------------------------------ stage outcomes *)
\* what a node call comes to: the state it returns or the exception it
\* raises, the number of provider calls (chain.ainvoke) it has made and the
\* number of calls of its search function
Returned(state) ==
    [raised |-> FALSE, exc |-> NONE, state |-> state, provider_calls |-> 0,
     searches |-> 0, asked |-> <<>>]
Raised(state, exc) ==
    [raised |-> TRUE, exc |-> exc, state |-> state, provider_calls |-> 0,
     searches |-> 0, asked |-> <<>>]

\* the outcome of what follows n provider calls
AfterCalls(n, out) == [out EXCEPT !.provider_calls = @ + n]

\* the outcome of what follows the calls of the search function with the
\* queries `asked`, one call per query
AfterSearches(asked, out) ==
    [out EXCEPT !.searches = @ + Len(asked), !.asked = asked \o @]

\* an except-branch that returns the error alone
ErrorReturn_bare(state, msg) ==
    [raised |-> FALSE, exc |-> NONE, provider_calls |-> 0, searches |-> 0,
     asked |-> <<>>,
     state |-> [error |-> msg, current_step |-> "error"]]

\* an except-branch that reports the failure as a progress note too
ErrorReturn_noted(state, msg) ==
    [raised |-> FALSE, exc |-> NONE, provider_calls |-> 0, searches |-> 0,
     asked |-> <<>>,
     state |-> Merge(state, [error |-> msg, current_step |-> "error",
                             messages |-> Append(Get(state, "messages", <<>>),
                                                 [type |-> "agent_note", agent |-> "error"])])]

\* an except-branch that sets the error and leaves current_step as it was
ErrorReturn_keeps_step(state, msg) ==
    [raised |-> FALSE, exc |-> NONE, provider_calls |-> 0, searches |-> 0,
     asked |-> <<>>,
     state |-> Merge(state, [error |-> msg])]

\* the except-branch of a node: {**state, "error": ..., "current_step": "error"}
ErrorReturn(state, msg) ==
    Returned(Merge(state, [error |-> msg, current_step |-> "error"]))

Note(agent) == [type |-> "agent_note", agent |-> agent]

(* ------------------------------------------------------------ retrieval *)
\* a null citationCount (kept apart from every real count)
NULL_COUNT == 0 - 1

Paper(id, title, abstract, cites) ==
    [id |-> id, title |-> title, abstract |-> abstract, citation_count |-> cites]

\* x.get("citation_count") or 0
CitationKey(p) == IF p.citation_count = NULL_COUNT THEN 0 ELSE p.citation_count

\* list.sort(key=CitationKey, reverse=True): stable, descending
RECURSIVE InsertByCitations(_, _)
InsertByCitations(sorted, p) ==
    IF sorted = <<>> THEN <<p>>
    ELSE IF CitationKey(Head(sorted)) >= CitationKey(p)
         THEN <<Head(sorted)>> \o InsertByCitations(Tail(sorted), p)
         ELSE <<p>> \o sorted

\* a list left in the order of retrieval
SortByCitations_unsorted(papers) == papers

RECURSIVE SortByCitations(_)
SortByCitations(papers) ==
    IF papers = <<>> THEN <<>>
    ELSE InsertByCitations(SortByCitations(SubSeq(papers, 1, Len(papers) - 1)),
                           papers[Len(papers)])

\* a slice that keeps the tail of the list
Take_last(seq, n) == SubSeq(seq, IF Len(seq) < n THEN 1 ELSE Len(seq) - n + 1, Len(seq))

\* papers[:n]
Take(seq, n) == SubSeq(seq, 1, IF Len(seq) < n THEN Len(seq) ELSE n)

\* literature_scout's key: paper.get("id") or paper.get("title", "")
ScoutKey(p) == IF Truthy(p.id) THEN p.id ELSE p.title

\* a loop that appends every paper it is given
DedupByKey_keeps_all(papers, seen, acc) == acc \o papers

\* the seen_ids loop of literature_scout over the concatenated results
RECURSIVE DedupByKey(_, _, _)
DedupByKey(papers, seen, acc) ==
    IF papers = <<>> THEN acc
    ELSE LET pid == ScoutKey(Head(papers)) IN
         IF Truthy(pid) /\ pid \notin seen
         THEN DedupByKey(Tail(papers), seen \cup {pid}, Append(acc, Head(papers)))
         ELSE DedupByKey(Tail(papers), seen, acc)

\* the seen_ids loop of deep_dive_scout: paper["id"], None included
RECURSIVE DedupById(_, _, _)
DedupById(papers, seen, acc) ==
    IF papers = <<>> THEN acc
    ELSE IF Head(papers).id \notin seen
         THEN DedupById(Tail(papers), seen \cup {Head(papers).id}, Append(acc, Head(papers)))
         ELSE DedupById(Tail(papers), seen, acc)

RECURSIVE Concat(_)
Concat(lists) == IF lists = <<>> THEN <<>> ELSE Head(lists) \o Concat(Tail(lists))

\* search_google_scholar: the placeholder returns an empty list
search_google_scholar(query, limit) == <<>>

\* the search function a stage calls is the name bound in its module: the
\* imported function, or the stand-in a scenario binds in its place, which
\* returns the same fixed list to every call or raises on every call
NoStub == [bound |-> FALSE, raises |-> FALSE, papers |-> <<>>]
StubReturning(papers) == [bound |-> TRUE, raises |-> FALSE, papers |-> papers]
StubRaising == [bound |-> TRUE, raises |-> TRUE, papers |-> <<>>]

\* a stand-in whose exception is taken for an empty result
Searched_swallows(env, shipped) ==
    IF env.stub.bound THEN [ok |-> TRUE, papers |-> env.stub.papers]
    ELSE shipped

Searched(env, shipped) ==
    IF env.stub.bound THEN [ok |-> ~env.stub.raises, papers |-> env.stub.papers]
    ELSE shipped

\* the calls made by "for query in queries: papers = await search(...)":
\* all of them, or those up to the first that raises
SearchesMade(results) ==
    IF \E i \in DOMAIN results : ~results[i].ok
    THEN CHOOSE i \in DOMAIN results :
            ~results[i].ok /\ \A j \in 1..(i - 1) : results[j].ok
    ELSE Len(results)

LiteratureCap == 50
LiteratureQueries == 5
DeepDiveCap == 30

(* ----------------------------------------------------- discovery nodes *)
\* result.get(key, default) on a decoded JSON object
RGet(result, k, default) == Get(result.fields, k, default)

\* d.get(...) raises AttributeError unless d is a dict
IsDict(v) == v \in {EMPTY_DICT, DICT}

scope_clarifier_node(state, env) ==
    IF ~env.ctor_ok THEN Raised(state, "ChatGoogleGenerativeAI: no credentials")
    ELSE AfterCalls(1,
    IF ~env.reply.ok
    THEN ErrorReturn(state, "Scope clarification failed: provider error")
    ELSE LET parsed == json_loads(ExtractFenced(env.reply.content)) IN
    IF ~parsed.ok
    THEN ErrorReturn(state, "Scope clarification failed: JSONDecodeError")
    ELSE LET result == parsed.value IN
    IF result.shape # "object" \/ ~IsDict(RGet(result, "domain_boundaries", EMPTY_DICT))
    THEN ErrorReturn(state, "Scope clarification failed: AttributeError")
    ELSE Returned(Merge(state,
            [domain_boundaries |-> RGet(result, "domain_boundaries", NONE),
             search_queries |-> RGet(result, "search_queries", <<>>),
             constraints |-> RGet(result, "constraints", NONE),
             current_step |-> "scope_clarified",
             messages |-> Append(Get(state, "messages", <<>>), Note("scope_clarifier"))])))

\* user_query.strip()
Strip(q) == IF q = " " THEN "" ELSE q

\* a fallback that searches with the user's query alone
FallbackQueries_single(base) == <<base>>

FallbackQueries(base) ==
    <<base, base \o " survey", base \o " review",
      base \o " state of the art", base \o " recent advances">>

literature_scout_node(state, env) ==
    LET given == Get(state, "search_queries", <<>>)
        user_query == Get(state, "user_query", "")
        search_queries ==
            IF given = <<>> /\ user_query # "" /\ Strip(user_query) # ""
            THEN FallbackQueries(Strip(user_query))
            ELSE given
        queries == Take(search_queries, LiteratureQueries)
        results == [i \in DOMAIN queries |->
                        Searched(env, [ok |-> TRUE,
                                       papers |-> search_google_scholar(queries[i], 20)])]
        found == Concat([i \in DOMAIN results |-> results[i].papers])
        all_papers == Take(SortByCitations(DedupByKey(found, {}, <<>>)), LiteratureCap)
    IN  IF search_queries = <<>>
        THEN ErrorReturn(state, "No search queries available")
        ELSE AfterSearches(Take(queries, SearchesMade(results)),
        IF \E i \in DOMAIN results : ~results[i].ok
        THEN ErrorReturn(state, "Literature search failed: retrieval error")
        ELSE Returned(Merge(state,
                [papers |-> all_papers,
                 current_step |-> "papers_retrieved",
                 messages |-> Append(Get(state, "messages", <<>>), Note("literature_scout"))])))

\* p.get("abstract", "No abstract")[:n] raises TypeError on a null abstract
HasNullAbstract(papers) == \E i \in DOMAIN papers : papers[i].abstract = NONE

trend_synthesizer_node(state, env) ==
    LET papers == Get(state, "papers", <<>>) IN
    IF papers = <<>>
    THEN ErrorReturn(state, "No papers to analyze")
    ELSE IF HasNullAbstract(Take(papers, 30)) THEN Raised(state, "TypeError")
    ELSE IF ~env.ctor_ok THEN Raised(state, "ChatGoogleGenerativeAI: no credentials")
    ELSE AfterCalls(1,
    IF ~env.reply.ok
    THEN ErrorReturn(state, "Trend synthesis failed: provider error")
    ELSE LET parsed == json_loads(ExtractFenced(env.reply.content)) IN
    IF ~parsed.ok
    THEN ErrorReturn(state, "Trend synthesis failed: JSONDecodeError")
    ELSE LET result == parsed.value IN
    IF result.shape # "object" \/ RGet(result, "themes", EMPTY_LIST) = NONE
    THEN ErrorReturn(state, "Trend synthesis failed: AttributeError")
    ELSE Returned(Merge(state,
            [themes |-> RGet(result, "themes", EMPTY_LIST),
             trends |-> RGet(result, "trends", EMPTY_DICT),
             current_step |-> "trends_identified",
             messages |-> Append(Get(state, "messages", <<>>), Note("trend_synthesizer"))])))

gap_miner_node(state, env) ==
    LET papers == Get(state, "papers", <<>>)
        trends == Get(state, "trends", EMPTY_DICT)
    IN
    IF HasNullAbstract(Take(papers, 20)) THEN Raised(state, "TypeError")
    ELSE IF ~IsDict(trends) THEN Raised(state, "AttributeError")
    ELSE IF ~env.ctor_ok THEN Raised(state, "ChatGoogleGenerativeAI: no credentials")
    ELSE AfterCalls(1,
    IF ~env.reply.ok
    THEN ErrorReturn(state, "Gap mining failed: provider error")
    ELSE LET parsed == json_loads(ExtractFenced(env.reply.content)) IN
    IF ~parsed.ok
    THEN ErrorReturn(state, "Gap mining failed: JSONDecodeError")
    ELSE LET result == parsed.value IN
    IF result.shape # "object" \/ RGet(result, "gaps", EMPTY_LIST) = NONE
    THEN ErrorReturn(state, "Gap mining failed: AttributeError")
    ELSE Returned(Merge(state,
            [gaps |-> RGet(result, "gaps", EMPTY_LIST),
             current_step |-> "gaps_identified",
             messages |-> Append(Get(state, "messages", <<>>), Note("gap_miner"))])))

direction_generator_node(state, env) ==
    LET gaps == Get(state, "gaps", EMPTY_LIST) IN
    IF ~Truthy(gaps)
    THEN ErrorReturn(state, "No gaps to generate directions from")
    ELSE IF ~env.ctor_ok THEN Raised(state, "ChatGoogleGenerativeAI: no credentials")
    ELSE AfterCalls(1,
    IF ~env.reply.ok
    THEN ErrorReturn(state, "Direction generation failed: provider error")
    ELSE LET parsed == json_loads(ExtractFenced(env.reply.content)) IN
    IF ~parsed.ok
    THEN ErrorReturn(state, "Direction generation failed: JSONDecodeError")
    ELSE LET result == parsed.value IN
    IF result.shape # "object" \/ RGet(result, "directions", EMPTY_LIST) \in {NONE, STR_LIST}
    THEN ErrorReturn(state, "Direction generation failed: AttributeError")
    ELSE Returned(Merge(state,
            [directions |-> RGet(result, "directions", EMPTY_LIST),
             current_step |-> "directions_generated",
             messages |-> Append(Get(state, "messages", <<>>), Note("direction_generator"))])))

(* ----------------------------------------------------- deep-dive nodes *)
\* a search that lets the HTTP error through to its caller
search_semantic_scholar_raises(resp) ==
    IF resp.kind = "ok" THEN [ok |-> TRUE, papers |-> resp.papers]
    ELSE [ok |-> FALSE, papers |-> <<>>]

\* search_semantic_scholar: the HTTP reply decides the outcome.  An HTTP
\* error is caught and becomes []; any other fault propagates to the caller.
search_semantic_scholar(resp) ==
    IF resp.kind = "ok" THEN [ok |-> TRUE, papers |-> resp.papers]
    ELSE IF resp.kind = "http_error" THEN [ok |-> TRUE, papers |-> <<>>]
    ELSE [ok |-> FALSE, papers |-> <<>>]

\* len(value) raises TypeError on None
HasLen(v) == v # NONE

deep_dive_scout_node(state, env) ==
    LET direction == Get(state, "direction", EMPTY_DICT) IN
    IF ~Truthy(direction)
    THEN ErrorReturn(state, "No direction provided for deep dive")
    ELSE IF ~env.ctor_ok THEN Raised(state, "ChatGoogleGenerativeAI: no credentials")
    ELSE AfterCalls(1,
    IF ~env.reply.ok
    THEN ErrorReturn(state, "Deep dive scouting failed: provider error")
    ELSE LET qparsed == json_loads(ExtractFenced(env.reply.content)) IN
    IF ~qparsed.ok
    THEN ErrorReturn(state, "Deep dive scouting failed: JSONDecodeError")
    ELSE IF qparsed.value.shape # "array"
    THEN ErrorReturn(state, "Deep dive scouting failed: TypeError")
    ELSE LET queries == Take(qparsed.value.items, 5)
             results == [i \in DOMAIN queries |->
                            Searched(env, search_semantic_scholar(env.search[i]))]
    IN
    AfterSearches(Take(queries, SearchesMade(results)),
    IF \E i \in DOMAIN results : ~results[i].ok
    THEN ErrorReturn(state, "Deep dive scouting failed: retrieval error")
    ELSE LET found == Concat([i \in DOMAIN results |-> results[i].papers])
             all_papers == Take(SortByCitations(DedupById(found, {}, <<>>)), DeepDiveCap)
    IN
    IF HasNullAbstract(Take(all_papers, 25))
    THEN ErrorReturn(state, "Deep dive scouting failed: TypeError")
    ELSE AfterCalls(1,
    IF ~env.reply2.ok
    THEN ErrorReturn(state, "Deep dive scouting failed: provider error")
    ELSE LET parsed == json_loads(ExtractFenced(env.reply2.content)) IN
    IF ~parsed.ok
    THEN ErrorReturn(state, "Deep dive scouting failed: JSONDecodeError")
    ELSE LET result == parsed.value IN
    IF \/ result.shape # "object"
       \/ ~HasLen(RGet(result, "baseline_methods", EMPTY_LIST))
       \/ ~HasLen(RGet(result, "datasets", EMPTY_LIST))
       \/ ~HasLen(RGet(result, "metrics", EMPTY_LIST))
    THEN ErrorReturn(state, "Deep dive scouting failed: TypeError")
    ELSE Returned(Merge(state,
            [baseline_methods |-> RGet(result, "baseline_methods", EMPTY_LIST),
             datasets |-> RGet(result, "datasets", EMPTY_LIST),
             metrics |-> RGet(result, "metrics", EMPTY_LIST),
             failure_cases |-> RGet(result, "failure_cases", EMPTY_LIST),
             implementation_notes |-> RGet(result, "implementation_notes", EMPTY_DICT),
             deep_dive_papers |-> all_papers,
             current_step |-> "deep_dive_complete",
             messages |-> Append(Get(state, "messages", <<>>), Note("deep_dive_scout"))])))))

experiment_designer_node(state, env) ==
    LET direction == Get(state, "direction", EMPTY_DICT) IN
    IF ~Truthy(direction)
    THEN ErrorReturn(state, "No direction provided for experiment design")
    ELSE IF ~env.ctor_ok THEN Raised(state, "ChatGoogleGenerativeAI: no credentials")
    ELSE AfterCalls(1,
    IF ~env.reply.ok
    THEN ErrorReturn(state, "Experiment design failed: provider error")
    ELSE LET parsed == json_loads(ExtractFenced(env.reply.content)) IN
    IF ~parsed.ok
    THEN ErrorReturn(state, "Experiment design failed: JSONDecodeError")
    ELSE LET result == parsed.value IN
    IF \/ result.shape # "object"
       \/ ~HasLen(RGet(result, "hypotheses", EMPTY_LIST))
       \/ ~HasLen(RGet(result, "ablation_studies", EMPTY_LIST))
    THEN ErrorReturn(state, "Experiment design failed: TypeError")
    ELSE Returned(Merge(state,
            [hypotheses |-> RGet(result, "hypotheses", EMPTY_LIST),
             proposed_method |-> RGet(result, "proposed_method", EMPTY_DICT),
             ablations |-> RGet(result, "ablation_studies", EMPTY_LIST),
             experiment_setup |-> RGet(result, "experiment_setup", EMPTY_DICT),
             training_protocol |-> RGet(result, "training_protocol", EMPTY_DICT),
             evaluation_plan |-> RGet(result, "evaluation_plan", EMPTY_DICT),
             compute_estimate |-> RGet(result, "compute_estimate", EMPTY_DICT),
             timeline |-> RGet(result, "timeline", EMPTY_DICT),
             risks |-> RGet(result, "risks_and_mitigations", EMPTY_LIST),
             current_step |-> "experiments_designed",
             messages |-> Append(Get(state, "messages", <<>>), Note("experiment_designer"))])))

(* --------------------------------------------------------- paper nodes *)
\* a provider of a chain: the model it calls and the retries its client makes
Provider(name, max_retries) == [name |-> name, max_retries |-> max_retries]

DEFAULT_GROQ_MODEL == "llama-3.1-8b-instant"
GroqMaxRetries == 2
GeminiMaxRetries == 1
GEMINI_MODELS ==
    <<"gemini-2.0-flash", "gemini-2.0-flash-lite", "gemini-1.5-flash", "gemini-1.5-pro">>

_make_gemini(model) == Provider(model, GeminiMaxRetries)

\* get_llm: Groq first with the Gemini models as fallbacks, the Gemini models
\* alone without a usable Groq client; no usable provider raises
get_llm(keys, groq_init_ok) ==
    LET gemini_llms == IF keys.google_api_key
                       THEN [i \in DOMAIN GEMINI_MODELS |-> _make_gemini(GEMINI_MODELS[i])]
                       ELSE <<>>
    IN  IF keys.groq_api_key /\ groq_init_ok
        THEN [ok |-> TRUE,
              chain |-> <<Provider(DEFAULT_GROQ_MODEL, GroqMaxRetries)>> \o gemini_llms]
        ELSE IF gemini_llms # <<>>
        THEN [ok |-> TRUE, chain |-> gemini_llms]
        ELSE [ok |-> FALSE, chain |-> <<>>]

section_order ==
    <<"abstract", "introduction", "related_work", "method", "experiments",
      "discussion", "conclusion">>

\* a paper as Markdown: its title line and the text under each "##" header;
\* NullDoc is Python None
NullDoc == [none |-> TRUE]
Markdown(title, sections) == [title |-> title, sections |-> sections]
TruthyDoc(d) == d # NullDoc

SectionText == "text"
SectionErrorPlaceholder == "> Error generating section"
SectionRevised == "revised text"
ReferencesStub == "*References to be added*"

paper_writer_node(state, env) ==
    IF ~get_llm(env.keys, env.ctor_ok).ok
    THEN Raised(state, "No AI API keys found")
    ELSE AfterCalls(1,
    IF ~env.reply.ok
    THEN ErrorReturn(state, "Paper writing failed: provider error")
    ELSE LET parsed == parse_json(env.reply.content) IN
    IF ~parsed.ok
    THEN ErrorReturn(state, "Paper writing failed: MalformedOutput")
    ELSE LET outline == parsed.value IN
    IF outline.shape # "object" \/ ~IsDict(RGet(outline, "outline", EMPTY_DICT))
    THEN ErrorReturn(state, "Paper writing failed: AttributeError")
    ELSE LET title == RGet(outline, "title", "Research Paper Draft")
             sections == [n \in Range(section_order) |->
                            IF n \in env.failing THEN SectionErrorPlaceholder
                            ELSE SectionText]
             paper_markdown ==
                Markdown(title, [n \in Range(section_order) \cup {"references"} |->
                            IF n = "references" THEN ReferencesStub ELSE sections[n]])
    IN  AfterCalls(Len(section_order), Returned(Merge(state,
            [title |-> title,
             outline |-> RGet(outline, "outline", EMPTY_DICT),
             abstract |-> sections["abstract"],
             introduction |-> sections["introduction"],
             related_work |-> sections["related_work"],
             method |-> sections["method"],
             experiments |-> sections["experiments"],
             discussion |-> sections["discussion"],
             conclusion |-> sections["conclusion"],
             paper_markdown |-> paper_markdown,
             current_step |-> "paper_drafted",
             messages |-> Append(Get(state, "messages", <<>>), Note("paper_writer"))]))))

\* extract_sections: every "##" header of the document, keyed by its name
extract_sections(paper_markdown) == paper_markdown.sections

\* reassemble_paper: the known sections that have content, under the title
reassemble_paper(title, sections) ==
    Markdown(title,
        [n \in {m \in (Range(section_order) \cup {"references"}) \cap DOMAIN sections :
                    sections[m] # ""} |-> sections[n]])

\* the revision instructions a caller may put into the state
Instructions == {"", "adapt to ieee", "tighten the method"}

\* the first style guide named in the instructions, in upper case
RequestedStyle(revision_instructions) ==
    IF revision_instructions = "adapt to ieee" THEN "IEEE" ELSE NONE

\* section_name.lower() in revision_instructions.lower()
NamedSections(revision_instructions) ==
    IF revision_instructions = "tighten the method" THEN {"method"} ELSE {}

\* style_response.content: the provider's rewriting of the whole paper
StyleAdapted(paper_markdown) ==
    Markdown(paper_markdown.title,
             [n \in DOMAIN paper_markdown.sections |-> "styled"])

paper_editor_node(state, env) ==
    LET paper_markdown == Get(state, "paper_markdown", NullDoc)
        revision_instructions == Get(state, "revision_instructions", "")
    IN
    IF ~TruthyDoc(paper_markdown)
    THEN ErrorReturn(state, "No paper draft to edit")
    ELSE IF ~env.ctor_ok THEN Raised(state, "ChatGoogleGenerativeAI: no credentials")
    ELSE AfterCalls(1,
    IF ~env.reply.ok
    THEN ErrorReturn(state, "Paper editing failed: provider error")
    ELSE LET parsed == json_loads(ExtractFenced(env.reply.content)) IN
    IF ~parsed.ok
    THEN ErrorReturn(state, "Paper editing failed: JSONDecodeError")
    ELSE LET analysis == parsed.value IN
    IF analysis.shape # "object"
    THEN ErrorReturn(state, "Paper editing failed: AttributeError")
    ELSE IF RequestedStyle(revision_instructions) # NONE
    THEN AfterCalls(1,
         IF ~env.reply2.ok
         THEN ErrorReturn(state, "Paper editing failed: provider error")
         ELSE Returned(Merge(state,
            [paper_markdown |-> StyleAdapted(paper_markdown),
             editor_analysis |-> DICT,
             revision_summary |-> "Adapted paper to style",
             current_step |-> "paper_edited",
             messages |-> Append(Get(state, "messages", <<>>), Note("paper_editor"))])))
    ELSE LET sections == extract_sections(paper_markdown)
             with_issues == (RGet(analysis, "section_feedback", {})
                                \cup NamedSections(revision_instructions))
                            \cap DOMAIN sections
    IN
    IF with_issues # {} /\ ~env.reply2.ok
    THEN AfterCalls(1, ErrorReturn(state, "Paper editing failed: provider error"))
    ELSE LET revised_sections ==
                [n \in DOMAIN sections |->
                    IF n \in with_issues THEN SectionRevised ELSE sections[n]]
             revised_paper ==
                reassemble_paper(Get(state, "title", "Research Paper"), revised_sections)
    IN  AfterCalls(Cardinality(with_issues), Returned(Merge(state,
            [paper_markdown |-> revised_paper,
             editor_analysis |-> DICT,
             revision_summary |-> "Revised sections based on analysis",
             current_step |-> "paper_edited",
             messages |-> Append(Get(state, "messages", <<>>), Note("paper_editor"))]))))

(* --------------------------------------------------------------- graphs *)
END == "__end__"

\* a router that never takes the "end" branch
_router_never_ends(state) == "continue"

\* _route_or_error(...)._router
_router(state) ==
    IF Get(state, "current_step", NONE) = "error" \/ Truthy(Get(state, "error", NONE))
    THEN "end"
    ELSE "continue"

\* a conditional edge whose "end" branch leads to the next node as well
ConditionalEdge_no_end(next) == [conditional |-> TRUE, continue |-> next, end |-> next]

ConditionalEdge(next) == [conditional |-> TRUE, continue |-> next, end |-> END]
PlainEdge(next) == [conditional |-> FALSE, continue |-> next, end |-> next]

create_discovery_graph ==
    [entry |-> "scope_clarifier",
     edges |-> [scope_clarifier |-> ConditionalEdge("literature_scout"),
                literature_scout |-> ConditionalEdge("trend_synthesizer"),
                trend_synthesizer |-> ConditionalEdge("gap_miner"),
                gap_miner |-> ConditionalEdge("direction_generator"),
                direction_generator |-> PlainEdge(END)]]

create_deep_dive_graph ==
    [entry |-> "deep_dive_scout",
     edges |-> [deep_dive_scout |-> ConditionalEdge("experiment_designer"),
                experiment_designer |-> PlainEdge(END)]]

\* a paper pipeline that ends with the writer's draft
create_paper_graph_writer_only ==
    [entry |-> "paper_writer",
     edges |-> [paper_writer |-> PlainEdge(END), paper_editor |-> PlainEdge(END)]]

create_paper_graph ==
    [entry |-> "paper_writer",
     edges |-> [paper_writer |-> ConditionalEdge("paper_editor"),
                paper_editor |-> PlainEdge(END)]]

GraphOf(kind) ==
    CASE kind = "discovery" -> create_discovery_graph
      [] kind = "deep_dive" -> create_deep_dive_graph
      [] kind = "paper" -> create_paper_graph

\* an executor that runs a failed node again instead of ending
NextNode_retries(kind, node, state) ==
    LET e == GraphOf(kind).edges[node] IN
    IF e.conditional /\ _router(state) = "end" THEN node ELSE e.continue

\* the node the compiled graph runs after `node` has returned `state`
NextNode(kind, node, state) ==
    LET e == GraphOf(kind).edges[node] IN
    IF e.conditional THEN e[_router(state)] ELSE e.continue

\* the node functions registered with add_node
RunNode(node, state, env) ==
    CASE node = "scope_clarifier" -> scope_clarifier_node(state, env)
      [] node = "literature_scout" -> literature_scout_node(state, env)
      [] node = "trend_synthesizer" -> trend_synthesizer_node(state, env)
      [] node = "gap_miner" -> gap_miner_node(state, env)
      [] node = "direction_generator" -> direction_generator_node(state, env)
      [] node = "deep_dive_scout" -> deep_dive_scout_node(state, env)
      [] node = "experiment_designer" -> experiment_designer_node(state, env)
      [] node = "paper_writer" -> paper_writer_node(state, env)
      [] node = "paper_editor" -> paper_editor_node(state, env)

(* ---------------------------------------------------------- state shapes *)
\* the keys declared by the TypedDict of each pipeline
DiscoveryState ==
    {"user_query", "project_id", "domain_boundaries", "search_queries", "constraints",
     "papers", "themes", "trends", "gaps", "directions", "current_step", "error",
     "messages"}

DeepDiveState ==
    {"project_id", "direction", "baseline_methods", "datasets", "metrics",
     "failure_cases", "hypotheses", "ablations", "training_protocol",
     "evaluation_plan", "compute_estimate", "current_step", "error", "messages"}

PaperState ==
    {"project_id", "direction", "deep_dive_report", "experiment_data", "outline",
     "title", "abstract", "introduction", "related_work", "method", "experiments",
     "results", "discussion", "conclusion", "references", "paper_markdown",
     "current_step", "error", "messages"}

StateShape(kind) ==
    CASE kind = "discovery" -> DiscoveryState
      [] kind = "deep_dive" -> DeepDiveState
      [] kind = "paper" -> PaperState

(* ------------------------------------------------------- initial states *)
DiscoveryInitialState(project_id, query) ==
    [user_query |-> query, project_id |-> project_id,
     domain_boundaries |-> EMPTY_DICT, search_queries |-> <<>>,
     constraints |-> EMPTY_DICT, papers |-> <<>>, themes |-> EMPTY_LIST,
     trends |-> EMPTY_DICT, gaps |-> EMPTY_LIST, directions |-> EMPTY_LIST,
     current_step |-> "starting", error |-> NONE, messages |-> <<>>]

DeepDiveInitialState(project_id, direction) ==
    [project_id |-> project_id, direction |-> direction,
     baseline_methods |-> NONE, metrics |-> NONE, failure_cases |-> NONE,
     hypotheses |-> NONE, ablations |-> NONE, training_protocol |-> NONE,
     evaluation_plan |-> NONE, compute_estimate |-> NONE,
     current_step |-> "starting", error |-> NONE, messages |-> <<>>]

PaperInitialState(project_id, direction, deep_dive_report, experiment_data) ==
    [project_id |-> project_id, direction |-> direction,
     deep_dive_report |-> deep_dive_report, experiment_data |-> experiment_data,
     outline |-> NONE, title |-> NONE, abstract |-> NONE, introduction |-> NONE,
     related_work |-> NONE, method |-> NONE, experiments |-> NONE,
     results |-> NONE, discussion |-> NONE, conclusion |-> NONE,
     references |-> NONE, paper_markdown |-> NullDoc,
     current_step |-> "starting", error |-> NONE, messages |-> <<>>]

(* ------------------------------------------------ environment's inputs *)
\* [ctor_ok]  whether constructing the chat model succeeds
\* [reply]    outcome of the node's first provider call
\* [reply2]   outcome of its later provider call(s)
\* [search]   HTTP outcomes of the retrieval calls, one per query
\* [failing]  paper sections whose provider call fails
\* [keys]     the API keys of the process settings
P1 == Paper("p1", "t1", "abstract", 3)
P2 == Paper("p2", "t2", "abstract", NULL_COUNT)
P3 == Paper("p3", "t3", "abstract", 10)
PNullAbstract == Paper("p4", "t4", NONE, 1)

HttpOk(papers) == [kind |-> "ok", papers |-> papers]
HttpError == [kind |-> "http_error", papers |-> <<>>]
BadPayload == [kind |-> "bad_payload", papers |-> <<>>]

SearchChoices ==
    { <<HttpOk(<<P1, P2>>), HttpOk(<<P3, P1>>)>>,
      <<HttpOk(<<>>), HttpOk(<<>>)>>,
      <<HttpError, HttpError>>,
      <<HttpOk(<<P1>>), BadPayload>>,
      <<HttpOk(<<PNullAbstract>>), HttpError>> }

ScopeFull ==
    Obj([domain_boundaries |-> DICT, search_queries |-> <<"q1", "q2">>, constraints |-> DICT])
ScopeNoQueries == Obj([domain_boundaries |-> DICT])
ScopeNullDomain == Obj([domain_boundaries |-> NONE])
TrendFull == Obj([themes |-> LIST, trends |-> DICT])
TrendNullTrends == Obj([themes |-> LIST, trends |-> NONE])
GapFull == Obj([gaps |-> LIST])
DirectionFull == Obj([directions |-> LIST])
QueryList == Arr(<<"q1", "q2">>)
DeepDiveFull ==
    Obj([baseline_methods |-> LIST, datasets |-> LIST, metrics |-> LIST,
         failure_cases |-> LIST, implementation_notes |-> DICT])
DeepDiveStrings == Obj([baseline_methods |-> STR_LIST])
DesignFull ==
    Obj([hypotheses |-> LIST, ablation_studies |-> LIST, training_protocol |-> DICT,
         evaluation_plan |-> DICT, compute_estimate |-> DICT])
OutlineFull == Obj([title |-> "T", outline |-> DICT])
AnalysisWithIssues == Obj([section_feedback |-> {"method"}])

JsonReplies(node) ==
    CASE node = "scope_clarifier" ->
            {Wrapped(ScopeFull), Bare(ScopeNoQueries), Bare(ScopeNullDomain)}
      [] node = "trend_synthesizer" -> {Wrapped(TrendFull), Bare(TrendNullTrends)}
      [] node = "gap_miner" -> {Wrapped(GapFull), Bare(EmptyObj)}
      [] node = "direction_generator" -> {Wrapped(DirectionFull), Bare(EmptyObj)}
      [] node = "deep_dive_scout" -> {Wrapped(QueryList), Bare(EmptyObj)}
      [] node = "experiment_designer" -> {Wrapped(DesignFull), Bare(EmptyObj)}
      [] node = "paper_writer" -> {Wrapped(OutlineFull), Bare(EmptyObj)}
      [] node = "paper_editor" -> {Wrapped(AnalysisWithIssues), Bare(EmptyObj)}
      [] OTHER -> {}

JsonReplies2(node) ==
    CASE node = "deep_dive_scout" -> {Wrapped(DeepDiveFull), Bare(DeepDiveStrings)}
      [] node = "paper_editor" -> {Garbage}
      [] OTHER -> {}

\* nodes that build ChatGoogleGenerativeAI themselves from settings.google_api_key
GeminiNodes ==
    {"scope_clarifier", "trend_synthesizer", "gap_miner", "direction_generator",
     "deep_dive_scout", "experiment_designer", "paper_editor"}

\* a provider can answer only if a key for it is configured
CanAnswer(node, keys) ==
    IF node \in GeminiNodes THEN keys.google_api_key
    ELSE keys.groq_api_key \/ keys.google_api_key

Replies(node, keys, texts) ==
    {ProviderFail} \cup
    (IF CanAnswer(node, keys) THEN {ProviderText(c) : c \in texts \cup {Garbage}} ELSE {})

EnvChoices(node, keys) ==
    [ctor_ok : IF node \in GeminiNodes /\ ~keys.google_api_key THEN BOOLEAN ELSE {TRUE},
     reply : IF JsonReplies(node) = {} THEN {ProviderFail}
             ELSE Replies(node, keys, JsonReplies(node)),
     reply2 : IF JsonReplies2(node) = {} THEN {ProviderFail}
              ELSE Replies(node, keys, JsonReplies2(node)),
     search : IF node = "deep_dive_scout" THEN SearchChoices ELSE {<<>>},
     failing : IF node = "paper_writer" THEN {{}, {"method"}} ELSE {{}},
     stub : {NoStub},
     keys : {keys}]

(* ------------------------------------------------------------ database *)
NullResult == [none |-> TRUE]
TIMESTAMP == "utcnow"
PROJECT == "project"

\* a row that the start request already marks as running
AgentRun_running(run_type, config) ==
    [project_id |-> PROJECT, run_type |-> run_type, status |-> "running",
     config |-> config, result |-> NullResult, error_message |-> NONE,
     started_at |-> TIMESTAMP, finished_at |-> NONE]

AgentRun(run_type, config) ==
    [project_id |-> PROJECT, run_type |-> run_type, status |-> "pending",
     config |-> config, result |-> NullResult, error_message |-> NONE,
     started_at |-> TIMESTAMP, finished_at |-> NONE]

Artifact(artifact_type, title, content_markdown) ==
    [project_id |-> PROJECT, artifact_type |-> artifact_type, title |-> title,
     content_markdown |-> content_markdown]

StaleMessage == "Server was restarted while this run was in progress. Please start a new run."

(* ------------------------------------------------------ background task *)
NoState == <<>>

\* no coroutine of this process belongs to the run
NoTask == [pc |-> "none", arg |-> NONE, state |-> NoState, node |-> END,
           active |-> {}, calls |-> <<>>, exc |-> NONE, pending |-> NullResult,
           garbled |-> FALSE, succeeded |-> 0]

ScheduledTask(arg) == [NoTask EXCEPT !.pc = "scheduled", !.arg = arg]
DoneTask == [NoTask EXCEPT !.pc = "done"]

\* the coroutine returned at "if not run: return"
NotFoundTask == [NoTask EXCEPT !.pc = "not_found"]

\* a select that finds a row whatever the table holds
RunExists_always(table, r) == TRUE

\* select(AgentRun).where(AgentRun.id == run_id) ... scalar_one_or_none():
\* a deleted row keeps its slot, marked, so that run ids stay positions
RunExists(table, r) == table[r].status # "deleted"

\* select(Project).where(Project.id == project_id, ...) finds the project:
\* the one project of the model is gone once its rows are
ProjectExists == \A r \in RunIds : RunExists(runs, r)

\* the direction a request hands to the task
RequestDirection == DICT

\* ", ".join(g.get("description", "") ...) and d.get(...) need lists of dicts
DiscoveryResultRaises(final_state) ==
    \/ ~IsDict(Get(final_state, "domain_boundaries", EMPTY_DICT))
    \/ Get(final_state, "gaps", EMPTY_LIST) = STR_LIST
    \/ Get(final_state, "directions", EMPTY_LIST) = STR_LIST

DiscoveryResult(final_state) ==
    [message |-> "Discovery analysis complete",
     directions |-> Get(final_state, "directions", EMPTY_LIST),
     papers_analyzed |-> Len(Get(final_state, "papers", <<>>)),
     gaps_found |-> Get(final_state, "gaps", EMPTY_LIST),
     themes |-> Get(final_state, "themes", EMPTY_LIST),
     domain_boundaries |-> Get(final_state, "domain_boundaries", EMPTY_DICT)]

DeepDiveResult(final_state) ==
    [message |-> "Deep dive complete",
     direction |-> Get(final_state, "direction", EMPTY_DICT),
     baseline_methods |-> Get(final_state, "baseline_methods", EMPTY_LIST),
     datasets |-> Get(final_state, "datasets", EMPTY_LIST),
     metrics |-> Get(final_state, "metrics", EMPTY_LIST),
     hypotheses |-> Get(final_state, "hypotheses", EMPTY_LIST),
     ablations |-> Get(final_state, "ablations", EMPTY_LIST),
     training_protocol |-> Get(final_state, "training_protocol", EMPTY_DICT),
     evaluation_plan |-> Get(final_state, "evaluation_plan", EMPTY_DICT),
     compute_estimate |-> Get(final_state, "compute_estimate", EMPTY_DICT)]

PaperResult(final_state) ==
    [message |-> "Paper draft generated",
     title |-> Get(final_state, "title", "Research Paper"),
     sections |-> [n \in Range(section_order) \cup {"results"} |->
                        Get(final_state, n, NONE)]]

\* method.get / ds.get / abl.get need dicts, protocol.get needs a dict
FormatRaises(state) ==
    \/ Get(state, "baseline_methods", NONE) \in {STR_LIST, DICT}
    \/ Get(state, "datasets", NONE) \in {STR_LIST, DICT}
    \/ Get(state, "training_protocol", NONE) \in {LIST, STR_LIST}
    \/ Get(state, "ablations", NONE) \in {STR_LIST, DICT}

\* _format_experiment_plan: one block per truthy field, then "Next Steps"
_format_experiment_plan(state) ==
    [heading |-> "# Experiment Plan",
     blocks |-> {k \in {"hypotheses", "baseline_methods", "datasets", "metrics",
                        "training_protocol", "ablations"} :
                    Truthy(Get(state, k, NONE))}]

(* ------------------------------------------------------------- startup *)
\* a cleanup that also rewrites finished runs
stale_statuses_any == {"running", "pending", "completed"}

\* a cleanup that forgets the runs whose task had not started
stale_statuses_running_only == {"running"}

stale_statuses == {"running", "pending"}

\* an UPDATE whose WHERE clause also matches the failed rows
RecoverRun_relabels(run) ==
    IF run.status \in stale_statuses \cup {"failed"}
    THEN [run EXCEPT !.status = "failed", !.error_message = StaleMessage,
                     !.finished_at = TIMESTAMP]
    ELSE run

\* the UPDATE of lifespan's stale-run cleanup, applied to one row
RecoverRun(run) ==
    IF run.status \in stale_statuses
    THEN [run EXCEPT !.status = "failed", !.error_message = StaleMessage,
                     !.finished_at = TIMESTAMP]
    ELSE run

\* a cleanup that is also run while the process serves requests
lifespan_sweeps ==
    /\ server' = "up"
    /\ runs' = [r \in RunIds |-> RecoverRun(runs[r])]
    /\ UNCHANGED <<responses, side>>
    /\ UNCHANGED <<crashes, settings, task, artifacts, run_events, eventLog,
                   clock, streams>>

\* lifespan(): the process starts, cleans up stale runs, then serves requests
lifespan ==
    /\ server = "down"
    /\ server' = "up"
    /\ runs' = [r \in RunIds |-> RecoverRun(runs[r])]
    /\ UNCHANGED <<responses, side>>
    /\ UNCHANGED <<crashes, settings, task, artifacts, run_events, eventLog,
                   clock, streams>>

\* the host process is terminated: every coroutine and connection is lost
Crash ==
    /\ server = "up"
    /\ crashes < MaxCrashes
    /\ server' = "down"
    /\ crashes' = crashes + 1
    /\ task' = [r \in RunIds |-> NoTask]
    /\ streams' = <<>>
    /\ UNCHANGED <<responses, side>>
    /\ UNCHANGED <<settings, runs, artifacts, run_events, eventLog, clock>>

\* delete_project: db.delete(project) cascades to the project's runs, their
\* events and the project's artifacts; get_db commits after the handler.
\* A task already running keeps its in-memory run object, which the other
\* fields of the marked row stand for.
delete_project ==
    /\ server = "up"
    /\ runs # <<>>
    /\ ProjectExists
    /\ runs' = [r \in RunIds |-> [runs[r] EXCEPT !.status = "deleted"]]
    /\ artifacts' = <<>>
    /\ run_events' = {}
    /\ eventLog' = <<>>
    /\ UNCHANGED <<responses, side>>
    /\ UNCHANGED <<server, crashes, settings, task, clock, streams>>

(* ------------------------------------------------------ start requests *)
\* AgentRunResponse.model_validate(run), built before the handler returns
AgentRunResponse(id, run) == [id |-> id, run_type |-> run.run_type, status |-> run.status]

Queries == {"q", "", " "}

CreateRun(limit, run_type, config, arg) ==
    /\ server = "up"
    /\ ProjectExists
    /\ Len(runs) < limit
    /\ runs' = Append(runs, AgentRun(run_type, config))
    /\ task' = Append(task, ScheduledTask(arg))
    /\ responses' = Append(responses, AgentRunResponse(Len(runs'), runs'[Len(runs')]))
    /\ UNCHANGED side
    /\ UNCHANGED <<server, crashes, settings, artifacts, run_events, eventLog,
                   clock, streams>>

\* `limit` caps the rows of agent_runs in the specification at hand
start_discovery_run(limit) ==
    \E query \in Queries : CreateRun(limit, "discovery", query, query)

start_deep_dive_run(limit) ==
    CreateRun(limit, "deep_dive", RequestDirection, RequestDirection)

start_paper_run(limit) == CreateRun(limit, "paper", EMPTY_LIST, EMPTY_DICT)

(* ---------------------------------------------- run_*_agent coroutines *)
\* the newest completed deep-dive run of the project that has a result
LatestDeepDive(table) ==
    LET done == {i \in DOMAIN table :
                    /\ table[i].run_type = "deep_dive"
                    /\ table[i].status = "completed"}
    IN  IF done = {} THEN 0 ELSE CHOOSE i \in done : \A j \in done : j <= i

InitialState(run_type, arg, table) ==
    CASE run_type = "discovery" -> DiscoveryInitialState(PROJECT, arg)
      [] run_type = "deep_dive" -> DeepDiveInitialState(PROJECT, arg)
      [] run_type = "paper" ->
            LET dd == LatestDeepDive(table) IN
            IF dd # 0 /\ table[dd].result # NullResult
            THEN PaperInitialState(PROJECT, Get(table[dd].result, "direction", arg),
                                   "report", <<>>)
            ELSE PaperInitialState(PROJECT, arg, "", <<>>)

\* up to graph.ainvoke: look the run up and return if it is not there;
\* otherwise mark the run running, build the graph and the state
TaskBegin(r) ==
    /\ server = "up"
    /\ task[r].pc = "scheduled"
    /\ IF RunExists(runs, r)
       THEN /\ runs' = [runs EXCEPT ![r].status = "running",
                                    ![r].started_at = TIMESTAMP]
            /\ task' = [task EXCEPT
                    ![r].pc = "graph",
                    ![r].node = GraphOf(runs[r].run_type).entry,
                    ![r].state = InitialState(runs[r].run_type, task[r].arg, runs')]
       ELSE /\ task' = [task EXCEPT ![r] = NotFoundTask]
            /\ UNCHANGED runs
    /\ UNCHANGED <<responses, side>>
    /\ UNCHANGED <<server, crashes, settings, artifacts, run_events, eventLog,
                   clock, streams>>

\* the node has asked its provider for JSON and got a reply that is none
\* (observed for the properties; the program keeps no such flag)
Garbled(node, env, out) ==
    \/ out.provider_calls >= 1 /\ env.reply = ProviderText(Garbage)
    \/ /\ node = "deep_dive_scout"
       /\ out.provider_calls >= 2
       /\ env.reply2 = ProviderText(Garbage)

\* the compiled graph calls the next node
InvokeNode(r) ==
    /\ server = "up"
    /\ task[r].pc = "graph"
    /\ task[r].active = {}
    /\ task[r].node # END
    /\ task' = [task EXCEPT ![r].active = {task[r].node},
                            ![r].calls = Append(task[r].calls, task[r].node)]
    /\ UNCHANGED <<responses, side>>
    /\ UNCHANGED <<server, crashes, settings, runs, artifacts, run_events,
                   eventLog, clock, streams>>

\* the node came back through its try-branch return
Succeeded(out) == ~out.raised /\ Get(out.state, "current_step", NONE) # "error"

\* the node returns (or raises); the graph routes to the next node or END
NodeReturn(r) ==
    /\ server = "up"
    /\ task[r].pc = "graph"
    /\ task[r].active # {}
    /\ \E env \in EnvChoices(task[r].node, settings) :
         LET out == RunNode(task[r].node, task[r].state, env)
             next == NextNode(runs[r].run_type, task[r].node, out.state)
         IN  task' = [task EXCEPT
                ![r].active = {},
                ![r].state = out.state,
                ![r].exc = out.exc,
                ![r].garbled = Garbled(task[r].node, env, out),
                ![r].succeeded = IF Succeeded(out) THEN @ + 1 ELSE @,
                ![r].node = IF out.raised THEN task[r].node ELSE next,
                ![r].pc = IF out.raised THEN "except"
                          ELSE IF next = END THEN "finalize" ELSE "graph"]
    /\ UNCHANGED <<responses, side>>
    /\ UNCHANGED <<server, crashes, settings, runs, artifacts, run_events,
                   eventLog, clock, streams>>

\* after graph.ainvoke: the branch on final_state.get("error") and the commit
FinalizeRaises(run_type, final_state) ==
    /\ ~Truthy(Get(final_state, "error", NONE))
    /\ \/ run_type = "discovery" /\ DiscoveryResultRaises(final_state)
       \/ run_type = "deep_dive" /\ FormatRaises(final_state)

FinalResult(run_type, final_state) ==
    CASE run_type = "discovery" -> DiscoveryResult(final_state)
      [] run_type = "deep_dive" -> DeepDiveResult(final_state)
      [] run_type = "paper" -> PaperResult(final_state)

\* a finalization that stores no document
FinalArtifacts_none(run_type, final_state) == <<>>

\* a finalization that stores its document twice
FinalArtifacts_twice(run_type, final_state) ==
    <<Artifact("experiment_plan", "Experiment Plan", _format_experiment_plan(final_state)),
      Artifact("experiment_plan", "Experiment Plan", _format_experiment_plan(final_state))>>

FinalArtifacts(run_type, final_state) ==
    CASE run_type = "discovery" -> <<>>
      [] run_type = "deep_dive" ->
            <<Artifact("experiment_plan", "Experiment Plan",
                       _format_experiment_plan(final_state))>>
      [] run_type = "paper" ->
            <<Artifact("paper_draft", Get(final_state, "title", "Research Paper Draft"),
                       Get(final_state, "paper_markdown", NullDoc))>>

\* a finalization that keeps the summary of a failed pipeline
FinalRun_keeps_partial(run, final_state) ==
    IF Truthy(Get(final_state, "error", NONE))
    THEN [run EXCEPT !.status = "failed", !.error_message = final_state["error"],
                     !.result = [direction |-> Get(final_state, "direction", NONE)],
                     !.finished_at = TIMESTAMP]
    ELSE [run EXCEPT !.status = "completed",
                     !.result = FinalResult(run.run_type, final_state),
                     !.finished_at = TIMESTAMP]

FinalRun(run, final_state) ==
    IF Truthy(Get(final_state, "error", NONE))
    THEN [run EXCEPT !.status = "failed", !.error_message = final_state["error"],
                     !.finished_at = TIMESTAMP]
    ELSE [run EXCEPT !.status = "completed",
                     !.result = FinalResult(run.run_type, final_state),
                     !.finished_at = TIMESTAMP]

\* the commit of a task whose row was deleted meanwhile updates no row and
\* raises; so does the commit of the except-branch; nothing is stored
TaskFinalize(r) ==
    /\ server = "up"
    /\ task[r].pc = "finalize"
    /\ IF ~RunExists(runs, r)
       THEN /\ task' = [task EXCEPT ![r] = DoneTask]
            /\ UNCHANGED <<runs, artifacts>>
       ELSE
       IF FinalizeRaises(runs[r].run_type, task[r].state)
       THEN /\ task' = [task EXCEPT
                    ![r].pc = "except",
                    ![r].exc = "AttributeError",
                    ![r].pending = IF runs[r].run_type = "deep_dive"
                                   THEN DeepDiveResult(task[r].state)
                                   ELSE NullResult]
            /\ UNCHANGED <<runs, artifacts>>
       ELSE /\ runs' = [runs EXCEPT ![r] = FinalRun(runs[r], task[r].state)]
            /\ artifacts' =
                 IF runs'[r].status = "completed"
                 THEN artifacts \o FinalArtifacts(runs[r].run_type, task[r].state)
                 ELSE artifacts
            /\ task' = [task EXCEPT ![r] = DoneTask]
    /\ UNCHANGED <<responses, side>>
    /\ UNCHANGED <<server, crashes, settings, run_events, eventLog, clock, streams>>

\* an except-branch that fails the run without stamping its end
ExceptRun_no_finish(run, exc, pending) ==
    [run EXCEPT !.status = "failed", !.error_message = exc]

\* the except-branch of the coroutine, then finally: db.close()
ExceptRun(run, exc, pending) ==
    IF run.run_type \in {"discovery", "deep_dive"}
    THEN [run EXCEPT !.status = "failed", !.error_message = exc,
                     !.finished_at = TIMESTAMP,
                     !.result = IF pending = NullResult THEN run.result ELSE pending]
    ELSE run

TaskExcept(r) ==
    /\ server = "up"
    /\ task[r].pc = "except"
    /\ runs' = IF RunExists(runs, r)
               THEN [runs EXCEPT ![r] = ExceptRun(runs[r], task[r].exc, task[r].pending)]
               ELSE runs
    /\ task' = [task EXCEPT ![r] = DoneTask]
    /\ UNCHANGED <<responses, side>>
    /\ UNCHANGED <<server, crashes, settings, artifacts, run_events, eventLog,
                   clock, streams>>

(* ------------------------------------------------------- specification *)
\* no provider call and no retrieval loop is being followed
NoStage == [pc |-> "none"]
NoCall == [pc |-> "none"]
NoRetrieval == [pc |-> "none"]
NoDecode == [pc |-> "none"]
NoScenario == [pc |-> "none"]

Init ==
    /\ server = "down"
    /\ crashes = 0
    /\ settings \in [groq_api_key : BOOLEAN, google_api_key : BOOLEAN]
    /\ runs = <<>>
    /\ task = <<>>
    /\ artifacts = <<>>
    /\ run_events = {}
    /\ eventLog = <<>>
    /\ clock = 0
    /\ streams = <<>>
    /\ responses = <<>>
    /\ stage = NoStage
    /\ call = NoCall
    /\ retrieval = NoRetrieval
    /\ decode = NoDecode
    /\ scenario = NoScenario

Next ==
    \/ lifespan
    \/ Crash
    \/ start_discovery_run(MaxRuns)
    \/ start_deep_dive_run(MaxRuns)
    \/ start_paper_run(MaxRuns)
    \/ \E r \in RunIds : TaskBegin(r)
    \/ \E r \in RunIds : InvokeNode(r)
    \/ \E r \in RunIds : NodeReturn(r)
    \/ \E r \in RunIds : TaskFinalize(r)
    \/ \E r \in RunIds : TaskExcept(r)

Spec == Init /\ [][Next]_vars

(* ------------------------------------- two runs of one project together *)
\* a deep-dive run and a paper run of the same project, their coroutines
\* interleaved at every await
PairNext ==
    \/ lifespan
    \/ start_deep_dive_run(MaxPairRuns)
    \/ start_paper_run(MaxPairRuns)
    \/ \E r \in RunIds : TaskBegin(r)
    \/ \E r \in RunIds : InvokeNode(r)
    \/ \E r \in RunIds : NodeReturn(r)
    \/ \E r \in RunIds : TaskFinalize(r)
    \/ \E r \in RunIds : TaskExcept(r)

PairSpec == Init /\ [][PairNext]_vars

(* ------------------------------------- a project deleted under its runs *)
MaxDeleteRuns == 1

\* the runs of one project and the request that deletes the project,
\* interleaved at every await
DeleteNext ==
    \/ lifespan
    \/ start_discovery_run(MaxDeleteRuns)
    \/ start_deep_dive_run(MaxDeleteRuns)
    \/ start_paper_run(MaxDeleteRuns)
    \/ delete_project
    \/ \E r \in RunIds : TaskBegin(r)
    \/ \E r \in RunIds : InvokeNode(r)
    \/ \E r \in RunIds : NodeReturn(r)
    \/ \E r \in RunIds : TaskFinalize(r)
    \/ \E r \in RunIds : TaskExcept(r)

DeleteSpec == Init /\ [][DeleteNext]_vars

(* ------------------------------------------------- run events and SSE *)
terminal_statuses == {"completed", "failed"}

\* a run_events row; id and created_at come from the column defaults
RunEvent(id, run_id, event_type, created_at) ==
    [id |-> id, run_id |-> run_id, event_type |-> event_type, created_at |-> created_at]

EventTypes == {"agent_note", "run_error"}

\* a collaborator inserts a row into run_events (no coroutine of the engine does)
InsertRunEvent ==
    /\ server = "up"
    /\ Len(eventLog) < MaxEvents
    /\ \E r \in RunIds, ty \in EventTypes :
         LET id == Len(eventLog) + 1 IN
         /\ run_events' = run_events \cup {RunEvent(id, r, ty, clock + 1)}
         /\ eventLog' = Append(eventLog, id)
    /\ clock' = clock + 1
    /\ UNCHANGED <<responses, side>>
    /\ UNCHANGED <<server, crashes, settings, runs, task, artifacts, streams>>

\* select(RunEvent).where(run_id == r).order_by(created_at)
RECURSIVE OrderByCreatedAt(_)
OrderByCreatedAt(rows) ==
    IF rows = {} THEN <<>>
    ELSE LET first == CHOOSE e \in rows : \A o \in rows : e.created_at <= o.created_at
         IN  <<first>> \o OrderByCreatedAt(rows \ {first})

\* a query that returns the newest event first
SelectRunEvents_newest_first(table, run_id) ==
    LET rows == {e \in table : e.run_id = run_id} IN
    [k \in 1..Cardinality(rows) |->
        CHOOSE e \in rows :
            Cardinality({o \in rows : o.created_at > e.created_at}) = k - 1]

SelectRunEvents(table, run_id) ==
    OrderByCreatedAt({e \in table : e.run_id = run_id})

\* format_sse_event(event.event_type, {"id": ..., "payload": ..., "created_at": ...})
SseEvent(e) == [event |-> e.event_type, id |-> e.id, created_at |-> e.created_at]

SseRunComplete(status, result) ==
    [event |-> "run_complete", status |-> status, result |-> result]

\* a generator that announces the end of every run it has replayed
CompletionEvents_always(run) == <<SseRunComplete(run.status, run.result)>>

\* what event_generator yields after the replay, given the run the request read
CompletionEvents(run) ==
    IF run.status \in terminal_statuses
    THEN <<SseRunComplete(run.status, run.result)>>
    ELSE <<>>

\* GET /runs/{run_id}/events: the request reads the run, then streams
stream_run_events ==
    /\ server = "up"
    /\ Len(streams) < MaxStreams
    /\ \E r \in RunIds :
         streams' = Append(streams,
            [run_id |-> r, pc |-> "accepted", run |-> runs[r], out |-> <<>>,
             selected |-> 0])
    /\ UNCHANGED <<responses, side>>
    /\ UNCHANGED <<server, crashes, settings, runs, task, artifacts, run_events,
                   eventLog, clock>>

\* event_generator: the query and the loop that yields every stored event
StreamReplay(i) ==
    /\ server = "up"
    /\ streams[i].pc = "accepted"
    /\ LET events == SelectRunEvents(run_events, streams[i].run_id) IN
       streams' = [streams EXCEPT
            ![i].pc = "replayed",
            ![i].selected = Len(eventLog),
            ![i].out = [k \in DOMAIN events |-> SseEvent(events[k])]]
    /\ UNCHANGED <<responses, side>>
    /\ UNCHANGED <<server, crashes, settings, runs, task, artifacts, run_events,
                   eventLog, clock>>

\* event_generator: the completion event, then the generator is exhausted
StreamFinish(i) ==
    /\ server = "up"
    /\ streams[i].pc = "replayed"
    /\ streams' = [streams EXCEPT
            ![i].pc = "closed",
            ![i].out = streams[i].out \o CompletionEvents(streams[i].run)]
    /\ UNCHANGED <<responses, side>>
    /\ UNCHANGED <<server, crashes, settings, runs, task, artifacts, run_events,
                   eventLog, clock>>

\* the engine together with the run_events table and its readers
StreamNext ==
    \/ lifespan
    \/ Crash
    \/ start_discovery_run(MaxStreamRuns)
    \/ start_deep_dive_run(MaxStreamRuns)
    \/ start_paper_run(MaxStreamRuns)
    \/ \E r \in RunIds : TaskBegin(r)
    \/ \E r \in RunIds : InvokeNode(r)
    \/ \E r \in RunIds : NodeReturn(r)
    \/ \E r \in RunIds : TaskFinalize(r)
    \/ \E r \in RunIds : TaskExcept(r)
    \/ InsertRunEvent
    \/ stream_run_events
    \/ \E i \in DOMAIN streams : StreamReplay(i)
    \/ \E i \in DOMAIN streams : StreamFinish(i)

\* the deployment with both provider keys configured
StreamInit ==
    /\ Init
    /\ settings = [groq_api_key |-> TRUE, google_api_key |-> TRUE]

StreamSpec == StreamInit /\ [][StreamNext]_vars

(* ------------------------------------------------- one stage, one input *)
StageNodes ==
    {"scope_clarifier", "literature_scout", "trend_synthesizer", "gap_miner",
     "direction_generator", "deep_dive_scout", "experiment_designer",
     "paper_writer", "paper_editor"}

\* more queries than the retrieving stage sends
SixQueries == <<"q1", "q2", "q3", "q4", "q5", "q6">>

\* what the upstream stages of a pipeline may have left in the state
ScopeOutputs == [domain_boundaries |-> DICT, search_queries |-> <<"q1", "q2">>,
                 constraints |-> DICT, current_step |-> "scope_clarified",
                 messages |-> <<Note("scope_clarifier")>>]
DeepDiveOutputs == [baseline_methods |-> LIST, datasets |-> LIST, metrics |-> LIST,
                    deep_dive_papers |-> <<P1>>, current_step |-> "deep_dive_complete",
                    messages |-> <<Note("deep_dive_scout")>>]
Draft == Markdown("T", [n \in Range(section_order) |-> SectionText])

\* states a stage can be called with: the initial state of its pipeline,
\* with or without what the stages before it write
StageInputs(node) ==
    LET discovery == {DiscoveryInitialState(PROJECT, q) : q \in Queries}
        scoped == {Merge(st, ScopeOutputs) : st \in discovery}
        deep == {DeepDiveInitialState(PROJECT, d) : d \in {RequestDirection, EMPTY_DICT}}
        paper == {PaperInitialState(PROJECT, d, rep, <<>>) :
                        d \in {EMPTY_DICT, DICT}, rep \in {"", "report"}}
    IN  CASE node = "scope_clarifier" -> discovery
          [] node = "literature_scout" ->
                discovery \cup scoped
                    \cup {Merge(st, [search_queries |-> SixQueries]) : st \in scoped}
          [] node = "trend_synthesizer" ->
                {Merge(st, [papers |-> ps]) :
                    st \in scoped, ps \in {<<>>, <<P1, P3>>, <<P1, PNullAbstract>>}}
          [] node = "gap_miner" ->
                {Merge(st, [papers |-> ps, themes |-> LIST, trends |-> tr]) :
                    st \in scoped, ps \in {<<>>, <<P1, P3>>, <<PNullAbstract>>},
                    tr \in {DICT, EMPTY_DICT, NONE}}
          [] node = "direction_generator" ->
                {Merge(st, [papers |-> <<P1>>, gaps |-> g]) :
                    st \in scoped, g \in {EMPTY_LIST, LIST}}
          [] node = "deep_dive_scout" -> deep
          [] node = "experiment_designer" -> deep \cup {Merge(st, DeepDiveOutputs) : st \in deep}
          [] node = "paper_writer" -> paper
          [] node = "paper_editor" ->
                paper \cup {Merge(st, [title |-> "T", paper_markdown |-> Draft,
                                       current_step |-> "paper_drafted"]) : st \in paper}
                      \cup {Merge(st, [title |-> "T", paper_markdown |-> Draft,
                                       current_step |-> "paper_drafted",
                                       revision_instructions |-> ri]) :
                                st \in paper, ri \in Instructions \ {""}}

\* a caller hands a state to a stage
StageCall ==
    /\ stage.pc \in {"none", "returned"}
    /\ \E node \in StageNodes :
         \E input \in StageInputs(node) :
            stage' = [pc |-> "called", node |-> node, input |-> input]
    /\ UNCHANGED <<engine, settings, call, retrieval, decode, scenario>>

\* the stage runs against some behaviour of its providers and returns or raises
StageReturn ==
    /\ stage.pc = "called"
    /\ \E env \in EnvChoices(stage.node, settings) :
         stage' = [pc |-> "returned", node |-> stage.node, input |-> stage.input,
                   env |-> env, out |-> RunNode(stage.node, stage.input, env)]
    /\ UNCHANGED <<engine, settings, call, retrieval, decode, scenario>>

StageNext == StageCall \/ StageReturn

StageSpec == Init /\ [][StageNext]_vars

(* ------------------------------------------- one provider call of a stage *)
\* ChatGoogleGenerativeAI(...) without max_retries: the client's default
GeminiDefaultRetries == 6

\* the chat model each stage builds and pipes its prompt into
StageChain(node, keys, groq_init_ok) ==
    CASE node = "paper_writer" -> get_llm(keys, groq_init_ok)
      [] node \in {"experiment_designer", "paper_editor"} ->
            [ok |-> TRUE, chain |-> <<Provider("gemini-1.5-pro", GeminiDefaultRetries)>>]
      [] OTHER ->
            [ok |-> TRUE, chain |-> <<Provider("gemini-1.5-flash", GeminiDefaultRetries)>>]

\* the attempts a client makes before it gives up: the first and its retries
MaxAttempts(p) == 1 + p.max_retries

\* whether the provider's service can answer with the configured credentials
HasKey(p, keys) ==
    IF p.name = DEFAULT_GROQ_MODEL THEN keys.groq_api_key ELSE keys.google_api_key

TextOf(p) == "text of " \o p.name

\* a call whose current provider has given up and that stops right there
AfterGiveUp_no_fallback(c) == [c EXCEPT !.pc = "raised"]

\* a call that skips to the last provider of the chain
AfterGiveUp_skips(c) ==
    IF c.idx < Len(c.chain)
    THEN [c EXCEPT !.idx = Len(c.chain), !.tries = 0]
    ELSE [c EXCEPT !.pc = "raised"]

\* RunnableWithFallbacks: the next runnable of the list, or the error once
\* the list is used up
AfterGiveUp(c) ==
    IF c.idx < Len(c.chain)
    THEN [c EXCEPT !.idx = c.idx + 1, !.tries = 0]
    ELSE [c EXCEPT !.pc = "raised"]

\* chain = prompt | llm; chain.ainvoke(inputs) inside the try of a stage
CallBegin ==
    /\ call.pc \in {"none", "returned", "stage_error"}
    /\ \E node \in StageNodes \ {"literature_scout"}, groq_init_ok \in BOOLEAN :
         LET llm == StageChain(node, settings, groq_init_ok) IN
         /\ llm.ok
         /\ call' = [pc |-> "running", node |-> node, chain |-> llm.chain,
                     prompt |-> node \o " prompt", idx |-> 1, tries |-> 0,
                     attempts |-> <<>>, text |-> NONE]
    /\ UNCHANGED <<engine, settings, stage, retrieval, decode, scenario>>

\* one request to the current provider: it answers, or fails in a way the
\* client retries (timeout, rate limit, transport) or does not
ProviderAttempt ==
    /\ call.pc = "running"
    /\ LET p == call.chain[call.idx]
           tried == [call EXCEPT !.tries = @ + 1,
                                 !.attempts = Append(@, [name |-> p.name,
                                                         prompt |-> call.prompt])]
       IN  \E outcome \in {"retryable", "fatal"} \cup
                          (IF HasKey(p, settings) THEN {"ok"} ELSE {}) :
             call' = IF outcome = "ok"
                     THEN [tried EXCEPT !.pc = "returned", !.text = TextOf(p)]
                     ELSE IF outcome = "retryable" /\ tried.tries < MaxAttempts(p)
                     THEN tried
                     ELSE AfterGiveUp(tried)
    /\ UNCHANGED <<engine, settings, stage, retrieval, decode, scenario>>

\* except Exception as e: return {**state, "error": ..., "current_step": "error"}
StageCatch ==
    /\ call.pc = "raised"
    /\ call' = [call EXCEPT !.pc = "stage_error"]
    /\ UNCHANGED <<engine, settings, stage, retrieval, decode, scenario>>

ProviderNext == CallBegin \/ ProviderAttempt \/ StageCatch

ProviderSpec == Init /\ [][ProviderNext]_vars

\* the event loop keeps running an awaited call
ProviderLiveSpec ==
    ProviderSpec /\ WF_vars(ProviderAttempt) /\ WF_vars(StageCatch)

(* ------------------------------------------- the retrieval loop of a scout *)
\* records of the search service without a paperId
PNoIdA == Paper(NONE, "t5", "abstract", NULL_COUNT)
PNoIdB == Paper(NONE, "t6", "abstract", 4)

RetrievedPapers == {P1, P3, PNoIdA, PNoIdB}

\* the result lists one query can come back with
ResultLists ==
    UNION {[1..n -> RetrievedPapers] : n \in 0..MaxResults}

RetrievalNodes == {"literature_scout", "deep_dive_scout"}

\* papers = await search_...(query, limit=...)
QueryResult(node, resp) ==
    IF node = "literature_scout"
    THEN search_google_scholar("q", 20)
    ELSE search_semantic_scholar(resp).papers

\* the identifiers the inner loop has added to seen_ids
SeenAfter(node, papers, seen) ==
    IF node = "literature_scout"
    THEN seen \cup {ScoutKey(papers[i]) : i \in {j \in DOMAIN papers : Truthy(ScoutKey(papers[j]))}}
    ELSE seen \cup {papers[i].id : i \in DOMAIN papers}

\* search_semantic_scholar(query, limit=15): a query brings at most 15 records
SemanticScholarLimit == 15

\* the least number of full result pages that exceeds the cap of the list
CatalogueQueries == DeepDiveCap \div SemanticScholarLimit + 1

\* a catalogue of distinct records, some without a citation count
CataloguePaper(i) ==
    Paper("c" \o ToString(i), "title " \o ToString(i), "abstract",
          IF i % 4 = 0 THEN NULL_COUNT ELSE (7 * i) % 10)

\* the full page of results that starts at record a of the catalogue
Page(a) == [k \in 1..SemanticScholarLimit |-> CataloguePaper(a + k - 1)]

PageOffsets == {1, 8, 16, 31}

\* search_google_scholar sends no request at all
NoRequest == [kind |-> "no_request", papers |-> <<>>]

\* the HTTP outcomes of the queries of one stage call: short lists that may
\* repeat records or lack ids, or full pages that together exceed the cap
RetrievalInputs(node) ==
    IF node = "literature_scout"
    THEN {[i \in 1..n |-> NoRequest] : n \in 1..MaxQueries}
    ELSE UNION {[1..n -> {HttpOk(l) : l \in ResultLists} \cup {HttpError}] :
                    n \in 1..MaxQueries}
         \cup [1..CatalogueQueries -> {HttpOk(Page(a)) : a \in PageOffsets}]

\* all_papers = []; seen_ids = set()
RetrievalBegin ==
    /\ retrieval.pc = "none"
    /\ \E node \in RetrievalNodes : \E resps \in RetrievalInputs(node) :
         retrieval' = [pc |-> "loop", node |-> node, resps |-> resps, returned |-> <<>>,
                       seen_ids |-> {}, all_papers |-> <<>>, papers |-> <<>>]
    /\ UNCHANGED <<engine, settings, stage, call, decode, scenario>>

\* one round of "for query in search_queries[:5]"
RetrievalQuery ==
    /\ retrieval.pc = "loop"
    /\ retrieval.resps # <<>>
    /\ LET papers == QueryResult(retrieval.node, Head(retrieval.resps)) IN
       retrieval' = [retrieval EXCEPT
            !.resps = Tail(@),
            !.returned = @ \o papers,
            !.seen_ids = SeenAfter(retrieval.node, papers, @),
            !.all_papers = IF retrieval.node = "literature_scout"
                           THEN DedupByKey(papers, retrieval.seen_ids, @)
                           ELSE DedupById(papers, retrieval.seen_ids, @)]
    /\ UNCHANGED <<engine, settings, stage, call, decode, scenario>>

\* all_papers.sort(...); all_papers = all_papers[:cap]
RetrievalFinish ==
    /\ retrieval.pc = "loop"
    /\ retrieval.resps = <<>>
    /\ retrieval' = [retrieval EXCEPT
            !.pc = "done",
            !.papers = Take(SortByCitations(retrieval.all_papers),
                            IF retrieval.node = "literature_scout"
                            THEN LiteratureCap ELSE DeepDiveCap)]
    /\ UNCHANGED <<engine, settings, stage, call, decode, scenario>>

RetrievalNext == RetrievalBegin \/ RetrievalQuery \/ RetrievalFinish

RetrievalSpec == Init /\ [][RetrievalNext]_vars

(* ------------------------------------- one reply, extracted and decoded *)
JsonA == JsonTok(Obj([a |-> DICT]))
JsonB == JsonTok(Obj([b |-> DICT]))

Tokens == {Prose, Whitespace, Fence, FenceJson, Tag, JsonA, JsonB}

\* the reply texts of a provider, up to a length
ReplyTexts == UNION {[1..n -> Tokens] : n \in 0..MaxTokens}

\* content = response.content
DecodeBegin ==
    /\ decode.pc = "none"
    /\ \E text \in ReplyTexts :
         decode' = [pc |-> "reply", content |-> text, extracted |-> <<>>,
                    result |-> json_loads(<<>>)]
    /\ UNCHANGED <<engine, settings, stage, call, retrieval, scenario>>

\* if "```json" in content: ... elif "```" in content: ...
DecodeExtract ==
    /\ decode.pc = "reply"
    /\ decode' = [decode EXCEPT !.pc = "extracted",
                                !.extracted = ExtractFenced(decode.content)]
    /\ UNCHANGED <<engine, settings, stage, call, retrieval, scenario>>

\* result = json.loads(content.strip())
DecodeLoads ==
    /\ decode.pc = "extracted"
    /\ decode' = [decode EXCEPT !.pc = "done", !.result = json_loads(decode.extracted)]
    /\ UNCHANGED <<engine, settings, stage, call, retrieval, scenario>>

DecodeNext == DecodeBegin \/ DecodeExtract \/ DecodeLoads

DecodeSpec == Init /\ [][DecodeNext]_vars

(* ------------------------------ one pipeline run with its search bound *)
\* what a scenario binds in place of the stage's search function
Stubs == {NoStub, StubReturning(<<P1, P2, P3>>), StubReturning(<<P1, P3, P1>>),
          StubReturning(<<>>), StubRaising}

ScenarioKinds == {"discovery", "deep_dive"}

ScenarioArgs(kind) ==
    IF kind = "discovery" THEN Queries ELSE {RequestDirection, EMPTY_DICT}

\* run_discovery_agent / run_deep_dive_agent up to graph.ainvoke(initial_state)
ScenarioBegin ==
    /\ scenario.pc \in {"none", "done"}
    /\ \E kind \in ScenarioKinds : \E arg \in ScenarioArgs(kind) : \E stub \in Stubs :
         scenario' = [pc |-> "graph", kind |-> kind, arg |-> arg, stub |-> stub,
                      state |-> InitialState(kind, arg, <<>>),
                      node |-> GraphOf(kind).entry, calls |-> <<>>, outs |-> <<>>,
                      exc |-> NONE, pending |-> NullResult,
                      run |-> [AgentRun(kind, arg) EXCEPT !.status = "running"]]
    /\ UNCHANGED <<engine, settings, stage, call, retrieval, decode>>

\* the compiled graph calls the next node and routes on what it returns
ScenarioStage ==
    /\ scenario.pc = "graph"
    /\ scenario.node # END
    /\ \E e \in EnvChoices(scenario.node, settings) :
         LET env == [e EXCEPT !.stub = scenario.stub]
             out == RunNode(scenario.node, scenario.state, env)
             next == NextNode(scenario.kind, scenario.node, out.state)
         IN  scenario' = [scenario EXCEPT
                !.state = out.state,
                !.exc = out.exc,
                !.calls = Append(@, scenario.node),
                !.outs = Append(@, [reply |-> env.reply, reply2 |-> env.reply2,
                                    provider_calls |-> out.provider_calls,
                                    searches |-> out.searches]),
                !.node = IF out.raised THEN scenario.node ELSE next,
                !.pc = IF out.raised THEN "except"
                       ELSE IF next = END THEN "finalize" ELSE "graph"]
    /\ UNCHANGED <<engine, settings, stage, call, retrieval, decode>>

\* after graph.ainvoke: the branch on final_state.get("error") and the commit
ScenarioFinalize ==
    /\ scenario.pc = "finalize"
    /\ scenario' =
         IF FinalizeRaises(scenario.kind, scenario.state)
         THEN [scenario EXCEPT
                !.pc = "except", !.exc = "AttributeError",
                !.pending = IF scenario.kind = "deep_dive"
                            THEN DeepDiveResult(scenario.state) ELSE NullResult]
         ELSE [scenario EXCEPT
                !.pc = "done", !.run = FinalRun(scenario.run, scenario.state)]
    /\ UNCHANGED <<engine, settings, stage, call, retrieval, decode>>

\* the except-branch of the coroutine
ScenarioExcept ==
    /\ scenario.pc = "except"
    /\ scenario' = [scenario EXCEPT
            !.pc = "done",
            !.run = ExceptRun(scenario.run, scenario.exc, scenario.pending)]
    /\ UNCHANGED <<engine, settings, stage, call, retrieval, decode>>

ScenarioNext == ScenarioBegin \/ ScenarioStage \/ ScenarioFinalize \/ ScenarioExcept

ScenarioSpec == Init /\ [][ScenarioNext]_vars

(* ========================================================== properties *)
Failing(state) ==
    Get(state, "current_step", NONE) = "error" \/ Truthy(Get(state, "error", NONE))

\* the pipelines as the specification declares them
DeclaredPipeline(run_type) ==
    CASE run_type = "discovery" ->
            <<"scope_clarifier", "literature_scout", "trend_synthesizer",
              "gap_miner", "direction_generator">>
      [] run_type = "deep_dive" -> <<"deep_dive_scout", "experiment_designer">>
      [] run_type = "paper" -> <<"paper_writer", "paper_editor">>

\* C1: once a stage of a run has returned a state whose error is set or whose
\* current_step is "error", no further stage of that run is invoked: the log
\* of invocations of the run does not grow any more.
C1_ShortCircuit ==
    [][\A r \in RunIds :
          (task[r].calls # <<>> /\ task[r].active = {} /\ Failing(task[r].state))
              => Len(task'[r].calls) <= Len(task[r].calls)]_vars

\* a stage has failed, the graph has ended, and a later stage was never invoked
C1_Witness ==
    \E r \in RunIds :
        /\ task[r].pc = "finalize"
        /\ Failing(task[r].state)
        /\ task[r].calls # <<>>
        /\ Len(task[r].calls) < Len(DeclaredPipeline(runs[r].run_type))

\* C2: when an exception escapes the pipeline inside the background task, the
\* task ends with the Run failed and the exception message stored, so a Run
\* whose task has terminated is never left in status running.
C2_EscapedExceptionFailsRun ==
    [][\A r \in RunIds :
          (task[r].pc = "except" /\ task'[r].pc = "done")
              => /\ runs'[r].status = "failed"
                 /\ runs'[r].error_message = task[r].exc]_vars

\* C3: the status of a Run changes only pending -> running (by its task, before
\* any stage is invoked), running -> completed, running -> failed, or
\* pending/running -> failed by startup recovery; a Run that is completed or
\* failed keeps its status, result and error_message.
C3_RunTransitions ==
    [][\A r \in RunIds :
          LET old == runs[r].status
              new == runs'[r].status
          IN  /\ \/ old = new
                 \/ <<old, new>> \in {<<"pending", "running">>, <<"running", "completed">>,
                                      <<"running", "failed">>, <<"pending", "failed">>}
              /\ (old = "pending" /\ new = "running")
                    => (task[r].pc = "scheduled" /\ task'[r].calls = <<>>)
              /\ (old = "pending" /\ new = "failed") => (server = "down" /\ server' = "up")
              /\ old \in terminal_statuses
                    => /\ new = old
                       /\ runs'[r].result = runs[r].result
                       /\ runs'[r].error_message = runs[r].error_message]_vars

\* a Run has gone pending -> running -> completed
C3_Witness ==
    \E r \in RunIds :
        /\ runs[r].status = "completed"
        /\ runs[r].result # NullResult
        /\ task[r].pc = "done"

\* C4: the stages invoked in a run are a prefix of the declared pipeline (so
\* they run in declared order, each at most once), at most one stage is
\* executing, and the executing stage is the one invoked last.
C4_StageOrder ==
    \A r \in RunIds :
        LET calls == task[r].calls
            declared == DeclaredPipeline(runs[r].run_type)
        IN  /\ Len(calls) <= Len(declared)
            /\ calls = SubSeq(declared, 1, Len(calls))
            /\ Cardinality(task[r].active) <= 1
            /\ task[r].active # {} => task[r].active = {calls[Len(calls)]}

\* the second stage of a pipeline is executing after the first has returned
C4_Witness ==
    \E r \in RunIds :
        /\ Len(task[r].calls) >= 2
        /\ task[r].active # {}

\* C5: no stage ever raises to the executor.
C5_NoStageRaises ==
    \A r \in RunIds : ~(task[r].pc = "except" /\ task[r].node # END)

\* C6: when the pipeline's final state has error set, the task's last step
\* leaves the Run failed with error_message equal to the state's error and
\* with a null result, whatever the pipeline kind.
C6_ErrorFailsRun ==
    [][\A r \in RunIds :
          (/\ task[r].pc = "finalize"
           /\ Truthy(Get(task[r].state, "error", NONE))
           /\ task'[r].pc \notin {"finalize", "none"})
              => /\ task'[r].pc = "done"
                 /\ runs'[r].status = "failed"
                 /\ runs'[r].error_message = task[r].state["error"]
                 /\ runs'[r].result = NullResult
                 /\ artifacts' = artifacts]_vars

\* a Run has been failed with the error text a stage put into the state
C6_Witness ==
    \E r \in RunIds :
        /\ runs[r].status = "failed"
        /\ task[r].pc = "done"
        /\ runs[r].error_message \in
              {"No papers to analyze", "Paper editing failed: provider error",
               "Deep dive scouting failed: retrieval error"}
        /\ runs[r].result = NullResult

\* C7: a Run becomes completed only in a step of its task taken from a final
\* state with error unset; that step stores a non-null result and, for a
\* deep-dive or paper run, adds the rendered document as an artifact.
C7_CompletedOnlyWithoutError ==
    [][\A r \in RunIds :
          (runs[r].status # "completed" /\ runs'[r].status = "completed")
              => LET final_state == task[r].state IN
                 /\ task[r].pc = "finalize"
                 /\ ~Truthy(Get(final_state, "error", NONE))
                 /\ runs'[r].result # NullResult
                 /\ runs[r].run_type = "discovery" => artifacts' = artifacts
                 /\ runs[r].run_type = "deep_dive" =>
                        /\ Len(artifacts') = Len(artifacts) + 1
                        /\ SubSeq(artifacts', 1, Len(artifacts)) = artifacts
                        /\ artifacts'[Len(artifacts')].artifact_type = "experiment_plan"
                        /\ artifacts'[Len(artifacts')].content_markdown =
                                _format_experiment_plan(final_state)
                 /\ runs[r].run_type = "paper" =>
                        /\ Len(artifacts') = Len(artifacts) + 1
                        /\ SubSeq(artifacts', 1, Len(artifacts)) = artifacts
                        /\ artifacts'[Len(artifacts')].artifact_type = "paper_draft"
                        /\ artifacts'[Len(artifacts')].content_markdown =
                                final_state["paper_markdown"]]_vars

\* a paper or deep-dive run is completed and its document is stored
C7_Witness ==
    \E r \in RunIds :
        /\ runs[r].status = "completed"
        /\ runs[r].run_type \in {"deep_dive", "paper"}
        /\ Len(artifacts) = 1

C9_TransitionsAreEvents ==
    \A r \in RunIds :
        Cardinality({e \in run_events : e.run_id = r}) >=
            (IF runs[r].status = "pending" THEN 1
             ELSE IF runs[r].status = "running" THEN 2 ELSE 3)

\* ids of the rows of `run_id` among the first n inserted, in insertion order
CreatedInOrder(run_id, n) ==
    SelectSeq(SubSeq(eventLog, 1, n),
              LAMBDA id : \E e \in run_events : e.id = id /\ e.run_id = run_id)

\* C10: a finished stream has emitted the RunEvents of its Run that existed at
\* the time of the replay, in creation order; if the Run was completed or
\* failed when the listener attached, exactly one run_complete event follows,
\* carrying the Run's status and result, and nothing else is emitted.
C10_ReplayThenRunComplete ==
    \A i \in DOMAIN streams :
        streams[i].pc = "closed" =>
            LET s == streams[i]
                ids == CreatedInOrder(s.run_id, s.selected)
                n == Len(ids)
            IN  /\ Len(s.out) >= n
                /\ \A k \in 1..n : s.out[k].event # "run_complete" /\ s.out[k].id = ids[k]
                /\ s.run.status \in terminal_statuses =>
                        /\ Len(s.out) = n + 1
                        /\ s.out[n + 1] = SseRunComplete(runs[s.run_id].status,
                                                         runs[s.run_id].result)

\* a listener of a terminal Run has received two events and then run_complete
C10_Witness ==
    \E i \in DOMAIN streams :
        /\ streams[i].pc = "closed"
        /\ streams[i].run.status \in terminal_statuses
        /\ Len(streams[i].out) = 3

\* C11: a start request appends one Run in pending, schedules its task without
\* running any stage, and answers with the Run's id and status pending; a Run
\* leaves pending for running only in a step of its scheduled task, taken
\* after that answer exists.
C11_StartReturnsPending ==
    [][/\ Len(runs') = Len(runs) + 1 =>
            LET r == Len(runs') IN
            /\ runs'[r].status = "pending"
            /\ task'[r].pc = "scheduled"
            /\ task'[r].calls = <<>> /\ task'[r].active = {}
            /\ responses' = Append(responses, [id |-> r, run_type |-> runs'[r].run_type,
                                               status |-> "pending"])
       /\ \A r \in RunIds :
            (runs[r].status = "pending" /\ runs'[r].status = "running")
                => /\ task[r].pc = "scheduled"
                   /\ task'[r].pc = "graph"
                   /\ \E i \in DOMAIN responses :
                        responses[i].id = r /\ responses[i].status = "pending"]_vars

\* the caller was told pending and the task has since made the Run running
C11_Witness ==
    \E r \in RunIds :
        /\ runs[r].status = "running"
        /\ task[r].pc = "graph"
        /\ \E i \in DOMAIN responses : responses[i] = [id |-> r, run_type |-> runs[r].run_type,
                                                       status |-> "pending"]

\* the fields each stage documents as its output; every stage also sets
\* current_step and appends to messages, and sets error when it fails
StageOutputs(node) ==
    {"current_step", "messages", "error"} \cup
    (CASE node = "scope_clarifier" -> {"domain_boundaries", "search_queries", "constraints"}
       [] node = "literature_scout" -> {"papers"}
       [] node = "trend_synthesizer" -> {"themes", "trends"}
       [] node = "gap_miner" -> {"gaps"}
       [] node = "direction_generator" -> {"directions"}
       [] node = "deep_dive_scout" ->
            {"baseline_methods", "datasets", "metrics", "failure_cases",
             "implementation_notes", "deep_dive_papers"}
       [] node = "experiment_designer" ->
            {"hypotheses", "proposed_method", "ablations", "experiment_setup",
             "training_protocol", "evaluation_plan", "compute_estimate", "timeline",
             "risks"}
       [] node = "paper_writer" ->
            {"title", "outline", "abstract", "introduction", "related_work", "method",
             "experiments", "discussion", "conclusion", "paper_markdown"}
       [] node = "paper_editor" -> {"paper_markdown", "editor_analysis", "revision_summary"})

C13_ErrorIsSticky ==
    [][\A r \in RunIds :
          (/\ Truthy(Get(task[r].state, "error", NONE))
           /\ task'[r].pc \in {"graph", "finalize", "except"})
              => task'[r].state["error"] = task[r].state["error"]]_vars

\* the first stage of a discovery run has failed and the graph has ended with
\* that stage's error in the final state
C13_Witness ==
    \E r \in RunIds :
        /\ task[r].pc = "finalize"
        /\ task[r].calls = <<"scope_clarifier">>
        /\ task[r].state["error"] = "Scope clarification failed: JSONDecodeError"

\* the mandatory input of each stage is absent or empty in `state`
MandatoryInputMissing(node, state) ==
    CASE node = "scope_clarifier" -> Get(state, "user_query", "") = ""
      [] node = "trend_synthesizer" -> Get(state, "papers", <<>>) = <<>>
      [] node = "direction_generator" -> ~Truthy(Get(state, "gaps", EMPTY_LIST))
      [] node \in {"deep_dive_scout", "experiment_designer", "paper_writer"} ->
            ~Truthy(Get(state, "direction", EMPTY_DICT))
      [] node = "paper_editor" -> ~TruthyDoc(Get(state, "paper_markdown", NullDoc))
      [] OTHER -> FALSE

\* C14: a stage called without its mandatory input returns a state with error
\* set and current_step "error", and has made no provider call.
C14_FailFastOnMissingInput ==
    (stage.pc = "returned" /\ MandatoryInputMissing(stage.node, stage.input))
        => /\ ~stage.out.raised
           /\ stage.out.provider_calls = 0
           /\ stage.out.state["current_step"] = "error"
           /\ Truthy(stage.out.state["error"])

\* the providers of the current call, by position, and what was asked of them
Attempted(k) ==
    \E i \in DOMAIN call.attempts : call.attempts[i].name = call.chain[k].name

AttemptsOf(k) ==
    Cardinality({i \in DOMAIN call.attempts : call.attempts[i].name = call.chain[k].name})

ChainIndex(name) == CHOOSE k \in DOMAIN call.chain : call.chain[k].name = name

RECURSIVE AttemptBudget(_)
AttemptBudget(chain) ==
    IF chain = <<>> THEN 0 ELSE 1 + Head(chain).max_retries + AttemptBudget(Tail(chain))

\* C15: a stage reports a provider fault only after every provider the
\* deployment has configured was attempted and failed
C15_StageErrorOnlyAfterWholeChain ==
    call.pc = "stage_error"
        => \A p \in Range(get_llm(settings, TRUE).chain) :
             \E i \in DOMAIN call.attempts : call.attempts[i].name = p.name

\* C16: providers are attempted in the order of the chain with the same
\* prompt, none is skipped, each at most as often as its retry bound allows,
\* and the text returned is that of the first provider that answered, with no
\* later provider attempted
C16_FallbackOrder ==
    call.pc # "none"
        => /\ \A i \in DOMAIN call.attempts : call.attempts[i].prompt = call.prompt
           /\ \A i, j \in DOMAIN call.attempts :
                i < j => ChainIndex(call.attempts[i].name) <= ChainIndex(call.attempts[j].name)
           /\ \A k \in DOMAIN call.chain :
                /\ Attempted(k) => \A m \in 1..(k - 1) : Attempted(m)
                /\ AttemptsOf(k) <= 1 + call.chain[k].max_retries
           /\ call.pc = "returned"
                => LET last == call.attempts[Len(call.attempts)].name IN
                   /\ call.text = TextOf(call.chain[ChainIndex(last)])
                   /\ \A k \in DOMAIN call.chain : k > ChainIndex(last) => ~Attempted(k)

C16_Witness ==
    /\ call.pc = "returned"
    /\ Len(call.chain) = 5
    /\ AttemptsOf(1) = 1 + GroqMaxRetries
    /\ Len(call.attempts) = AttemptsOf(1) + 1
    /\ call.text = TextOf(_make_gemini(GEMINI_MODELS[1]))

C17_ExhaustionInv ==
    /\ call.pc \in {"raised", "stage_error"}
         => /\ call.text = NONE
            /\ \A k \in DOMAIN call.chain : Attempted(k)
            /\ call.attempts[Len(call.attempts)].name = call.chain[Len(call.chain)].name
    /\ call.pc = "returned" => call.text \in {TextOf(p) : p \in Range(call.chain)}
    /\ call.pc # "none" => Len(call.attempts) <= AttemptBudget(call.chain)

\* C17: a call raises only after the last provider of the chain has failed,
\* never returns an empty or partial text, makes no more attempts than the
\* retry bounds of its providers add up to, and always ends
C17_ExhaustionRaises ==
    /\ []C17_ExhaustionInv
    /\ (call.pc = "running") ~> (call.pc \in {"returned", "stage_error"})

C17_Witness ==
    /\ call.pc = "stage_error"
    /\ Len(call.chain) = 5
    /\ Len(call.attempts) = AttemptBudget(call.chain)

\* C18: a completed paper run and its paper_draft artifact hold no section
\* that is the placeholder of a failed provider call
C18_NoPlaceholderExposed ==
    /\ \A i \in DOMAIN artifacts :
         (artifacts[i].artifact_type = "paper_draft"
            /\ TruthyDoc(artifacts[i].content_markdown))
           => \A n \in DOMAIN artifacts[i].content_markdown.sections :
                artifacts[i].content_markdown.sections[n] # SectionErrorPlaceholder
    /\ \A r \in DOMAIN runs :
         (runs[r].run_type = "paper" /\ runs[r].status = "completed")
           => \A n \in DOMAIN runs[r].result.sections :
                runs[r].result.sections[n] # SectionErrorPlaceholder

\* C19: the state a run's pipeline starts from is built from the run's own
\* record and arguments alone, whatever the other runs have done
C19_RunIsolation ==
    [][\A r \in DOMAIN task :
         (task[r].pc = "scheduled" /\ task'[r].pc = "graph")
           => task'[r].state = InitialState(runs[r].run_type, task[r].arg, <<runs'[r]>>)]_vars

\* the identifier of a retrieved item: its id or, without one, its title
Identifier(p) == IF p.id # NONE THEN p.id ELSE p.title

\* the most items a retrieving stage passes on
DeclaredCap(node) == IF node = "literature_scout" THEN 50 ELSE 30

Identifiers(papers) == {Identifier(papers[i]) : i \in DOMAIN papers}

\* C20: in the papers of a retrieving stage no two items share an
\* identifier, and every item the queries returned appears exactly once
\* (as long as the items returned fit under the cap of the list)
C20_Deduplicated ==
    retrieval.pc = "done"
        => /\ \A i, j \in DOMAIN retrieval.papers :
                Identifier(retrieval.papers[i]) = Identifier(retrieval.papers[j]) => i = j
           /\ Cardinality(Identifiers(retrieval.returned)) <= DeclaredCap(retrieval.node)
                => \A k \in DOMAIN retrieval.returned :
                     Cardinality({i \in DOMAIN retrieval.papers :
                        Identifier(retrieval.papers[i]) = Identifier(retrieval.returned[k])}) = 1

\* the sort key the ordering is stated in: the citation count, null as 0
CountOrZero(p) == IF p.citation_count = NULL_COUNT THEN 0 ELSE p.citation_count

Counts(papers) == [i \in DOMAIN papers |-> papers[i].citation_count]

\* C21: the papers of a retrieving stage are in non-increasing order of
\* citation count, a null count taken as 0
C21_SortedByCitations ==
    retrieval.pc = "done"
        => \A i, j \in DOMAIN retrieval.papers :
             i < j => CountOrZero(retrieval.papers[i]) >= CountOrZero(retrieval.papers[j])

C21_Witness ==
    /\ retrieval.pc = "done"
    /\ Counts(retrieval.returned) = <<3, NULL_COUNT, 10>>
    /\ Counts(retrieval.papers) = <<10, 3, NULL_COUNT>>

\* C22: the list is cut to the cap after deduplication, and the cut keeps
\* the most-cited items: nothing cut off has a higher count than a kept item
C22_CapAfterDedup ==
    retrieval.pc = "done"
        => LET cap == DeclaredCap(retrieval.node)
               deduped == retrieval.all_papers
               kept == Range(retrieval.papers)
           IN  /\ Len(retrieval.papers) <= cap
               /\ Len(retrieval.papers) = (IF Len(deduped) < cap THEN Len(deduped) ELSE cap)
               /\ kept \subseteq Range(deduped)
               /\ Cardinality(kept) = Len(retrieval.papers)
               /\ \A d \in Range(deduped) \ kept : \A r \in kept :
                    CountOrZero(d) <= CountOrZero(r)

C22_Witness ==
    /\ retrieval.pc = "done"
    /\ retrieval.node = "deep_dive_scout"
    /\ Len(retrieval.returned) > Len(retrieval.all_papers)
    /\ Len(retrieval.all_papers) > DeepDiveCap
    /\ Len(retrieval.papers) = DeepDiveCap

\* every query of the stage call at hand came back without a paper
EveryQueryEmpty ==
    IF stage.node = "literature_scout"
    THEN \A q \in {"q1", "q2"} : search_google_scholar(q, 20) = <<>>
    ELSE \A i \in DOMAIN stage.env.search :
            stage.env.search[i] \in {HttpOk(<<>>), HttpError}

\* the stage call at hand got as far as its queries, and its provider
\* answered every call with JSON of the expected form
RetrievalReached ==
    IF stage.node = "literature_scout"
    THEN \/ Get(stage.input, "search_queries", <<>>) # <<>>
         \/ Strip(Get(stage.input, "user_query", "")) # ""
    ELSE /\ Truthy(Get(stage.input, "direction", EMPTY_DICT))
         /\ stage.env.ctor_ok
         /\ stage.env.reply = ProviderText(Wrapped(QueryList))
         /\ stage.env.reply2 \in {ProviderText(Wrapped(DeepDiveFull)),
                                  ProviderText(Bare(DeepDiveStrings))}

PapersOf(node, state) ==
    IF node = "literature_scout" THEN Get(state, "papers", NONE)
    ELSE Get(state, "deep_dive_papers", NONE)

SuccessMarker(node) ==
    IF node = "literature_scout" THEN "papers_retrieved" ELSE "deep_dive_complete"

\* C23: a retrieving stage whose queries all come back empty completes
\* without an error, with an empty list of papers and its success marker
C23_EmptyRetrievalIsValid ==
    (/\ stage.pc = "returned"
     /\ stage.node \in RetrievalNodes
     /\ RetrievalReached
     /\ EveryQueryEmpty)
        => /\ ~stage.out.raised
           /\ ~Truthy(Get(stage.out.state, "error", NONE))
           /\ PapersOf(stage.node, stage.out.state) = <<>>
           /\ stage.out.state["current_step"] = SuccessMarker(stage.node)

C23_Witness ==
    /\ stage.pc = "returned"
    /\ stage.node = "literature_scout"
    /\ Get(stage.input, "search_queries", <<>>) = <<"q1", "q2">>
    /\ stage.out.state["papers"] = <<>>
    /\ stage.out.state["current_step"] = "papers_retrieved"
    /\ ~Truthy(Get(stage.out.state, "error", NONE))

\* C24: a discovery run whose literature retrieval found no paper goes on:
\* the stage after literature_scout works with the empty list, and no run
\* fails for the lack of papers alone
C24_ZeroPapersContinue ==
    \A r \in DOMAIN task :
        LET st == task[r].state IN
        (/\ runs[r].run_type = "discovery"
         /\ st # NoState
         /\ Get(st, "papers", NONE) = <<>>
         /\ task[r].calls # <<>>
         /\ task[r].calls[Len(task[r].calls)] = "trend_synthesizer"
         /\ task[r].active = {})
            => Get(st, "error", NONE) # "No papers to analyze"

\* C25: a stage whose provider reply does not decode as JSON returns an
\* error state, and the run then ends failed with that error as its message
C25_ParseErrorsConverted ==
    /\ [](\A r \in DOMAIN task :
            task[r].garbled
                => /\ task[r].state["current_step"] = "error"
                   /\ Truthy(task[r].state["error"])
                   /\ task[r].pc = "finalize"
                   /\ runs[r].status = "running")
    /\ [][\A r \in DOMAIN task :
            (task[r].garbled /\ task'[r].pc = "done")
                => /\ runs'[r].status = "failed"
                   /\ runs'[r].error_message = task[r].state["error"]
                   /\ runs'[r].error_message # NONE]_vars

C25_Witness ==
    \E r \in DOMAIN runs :
        /\ runs[r].status = "failed"
        /\ runs[r].error_message = "Deep dive scouting failed: JSONDecodeError"
        /\ task[r].pc = "done"

IsFence(tok) == tok.t \in {"fence", "fence_json"}

\* the position of the fence that closes the block opened at position i
ClosingFence(text, i) ==
    IF \E j \in (i + 1)..Len(text) : IsFence(text[j])
    THEN CHOOSE j \in (i + 1)..Len(text) :
            IsFence(text[j]) /\ \A k \in (i + 1)..(j - 1) : ~IsFence(text[k])
    ELSE 0

\* a reply made of prose and fenced blocks: every block is opened by a fence,
\* with or without a language word, and closed by a bare fence
RECURSIVE WellFormedFrom(_, _)
WellFormedFrom(text, i) ==
    IF i > Len(text) THEN TRUE
    ELSE IF IsFence(text[i])
    THEN LET j == ClosingFence(text, i) IN
         /\ j # 0
         /\ text[j].t = "fence"
         /\ \A k \in (i + 1)..(j - 1) :
                text[k].t = "tag" => (k = i + 1 /\ text[i].t = "fence")
         /\ WellFormedFrom(text, j + 1)
    ELSE text[i].t # "tag" /\ WellFormedFrom(text, i + 1)

\* the inside of the block opened at position i, without its language word
BlockInterior(text, i) ==
    LET j == ClosingFence(text, i)
        from == IF i < Len(text) /\ text[i + 1].t = "tag" THEN i + 2 ELSE i + 1
    IN  SubSeq(text, from, j - 1)

FirstIndex(text, toks) ==
    CHOOSE i \in DOMAIN text :
        text[i].t \in toks /\ \A k \in 1..(i - 1) : text[k].t \notin toks

\* the text to decode: the inside of the JSON-tagged block if there is one,
\* else of the first block, else the whole reply; whitespace stripped
TextToDecode(text) ==
    strip(IF \E i \in DOMAIN text : text[i].t = "fence_json"
          THEN BlockInterior(text, FirstIndex(text, {"fence_json"}))
          ELSE IF \E i \in DOMAIN text : text[i].t = "fence"
          THEN BlockInterior(text, FirstIndex(text, {"fence"}))
          ELSE text)

\* C26: what is decoded from a reply of prose and fenced blocks is the
\* inside of the JSON-tagged block, else of the first block, else the whole
\* reply, stripped; a block with another language word still yields its JSON
C26_StructuredExtraction ==
    (decode.pc = "done" /\ WellFormedFrom(decode.content, 1))
        => LET expected == TextToDecode(decode.content) IN
           /\ strip(decode.extracted) = expected
           /\ (Len(expected) = 1 /\ expected[1].t = "json")
                => decode.result = [ok |-> TRUE, value |-> expected[1].v]

(* ------------------------------------------------------- progress notes *)
NotesOf(r) == Get(task[r].state, "messages", <<>>)

IsPrefix(s, t) == Len(s) <= Len(t) /\ SubSeq(t, 1, Len(s)) = s

\* a step in which the node called for run r comes back
StageComesBack(r) ==
    /\ task[r].pc = "graph" /\ task[r].active # {}
    /\ task'[r].pc \in {"graph", "finalize", "except"} /\ task'[r].active = {}

\* C27: every stage that comes back through its success return has appended
\* exactly one note, its own, behind all the earlier notes, which stay in
\* their order; a stage that comes back with an error (or raises) leaves
\* messages as it was; so while a pipeline runs and when it has ended the
\* length of messages is the number of stages that completed successfully
C27_OneNotePerSuccessfulStage ==
    /\ [](\A r \in DOMAIN task :
            task[r].pc \in {"graph", "finalize", "except"}
                => Len(NotesOf(r)) = task[r].succeeded)
    /\ [][\A r \in DOMAIN task :
            StageComesBack(r) =>
                LET before == NotesOf(r)
                    after == Get(task'[r].state, "messages", <<>>)
                IN  IF task'[r].succeeded = task[r].succeeded + 1
                    THEN /\ Len(after) = Len(before) + 1
                         /\ IsPrefix(before, after)
                         /\ after[Len(after)] = Note(task[r].node)
                    ELSE after = before]_vars

\* a pipeline of two stages: the first appended its note, the second came
\* back with an error and appended none
C27_Witness ==
    \E r \in DOMAIN task :
        /\ task[r].pc = "finalize"
        /\ Len(task[r].calls) = 2
        /\ Len(NotesOf(r)) = 1
        /\ task[r].state["current_step"] = "error"
(* ------------------------------------------------- end-to-end scenarios *)
\* the reply that carries every field the stage's prompt asks for
FullReply(node) ==
    CASE node = "scope_clarifier" -> ScopeFull
      [] node = "trend_synthesizer" -> TrendFull
      [] node = "gap_miner" -> GapFull
      [] node = "direction_generator" -> DirectionFull
      [] OTHER -> EmptyObj

WellFormedReply(node, reply) ==
    reply \in {ProviderText(Wrapped(FullReply(node))), ProviderText(Bare(FullReply(node)))}

ThreeDistinct(papers) ==
    Len(papers) = 3 /\ Cardinality({papers[i].id : i \in DOMAIN papers}) = 3

\* a finished discovery run with a query, a search function that returns
\* three distinct papers and providers that reply well to every stage
SuccessScenario ==
    /\ scenario.pc = "done"
    /\ scenario.kind = "discovery"
    /\ scenario.arg # ""
    /\ scenario.stub.bound /\ ~scenario.stub.raises
    /\ ThreeDistinct(scenario.stub.papers)
    /\ \A i \in DOMAIN scenario.calls :
            scenario.calls[i] # "literature_scout"
                => WellFormedReply(scenario.calls[i], scenario.outs[i].reply)

\* C28: a discovery run with a non-empty user_query, a retrieval
\* collaborator that returns three distinct papers and well-formed provider
\* replies (with a gap and a direction) runs its five stages in order and
\* ends with current_step "directions_generated", error unset, three papers
\* and at least one direction, and the Run is completed
C28_EndToEndSuccess ==
    SuccessScenario =>
        /\ scenario.calls = <<"scope_clarifier", "literature_scout", "trend_synthesizer",
                              "gap_miner", "direction_generator">>
        /\ scenario.state["current_step"] = "directions_generated"
        /\ scenario.state["error"] = NONE
        /\ Len(scenario.state["papers"]) = 3
        /\ scenario.state["directions"] = LIST
        /\ scenario.run.status = "completed"
        /\ scenario.run.error_message = NONE

C28_Witness ==
    /\ SuccessScenario
    /\ Len(scenario.calls) = 5
    /\ Len(scenario.state["papers"]) = 3
    /\ scenario.run.status = "completed"
\* str(e) of the stage's except-branch when its search function raised
RetrievalFailure(node) ==
    IF node = "literature_scout" THEN "Literature search failed: retrieval error"
    ELSE "Deep dive scouting failed: retrieval error"

\* a finished run whose search function raised on every call, of which the
\* retrieving stage made at least one
FailureScenario ==
    /\ scenario.pc = "done"
    /\ scenario.stub.bound /\ scenario.stub.raises
    /\ \E i \in DOMAIN scenario.outs : scenario.outs[i].searches >= 1

\* C29: when the retrieval collaborator raises on every call, the Run ends
\* failed with an error_message that is the retrieving stage's own failure
\* message, and the retrieving stage is the last stage invoked
C29_EndToEndFailure ==
    FailureScenario =>
        LET last == scenario.calls[Len(scenario.calls)] IN
        /\ last \in RetrievalNodes
        /\ scenario.outs[Len(scenario.outs)].searches = 1
        /\ \A i \in 1..(Len(scenario.outs) - 1) : scenario.outs[i].searches = 0
        /\ scenario.run.status = "failed"
        /\ scenario.run.error_message # NONE
        /\ scenario.run.error_message = RetrievalFailure(last)
        /\ scenario.state["current_step"] = "error"

C29_Witness ==
    /\ FailureScenario
    /\ scenario.kind = "discovery"
    /\ scenario.calls = <<"scope_clarifier", "literature_scout">>
    /\ scenario.run.status = "failed"
(* -------------------------------------------------------- initial state *)
\* the task of run r holds the state it hands to graph.ainvoke
JustBuilt(r) == task[r].pc = "graph" /\ task[r].calls = <<>> /\ task[r].active = {}

\* C30: the initial state built for a run has every key its pipeline's
\* state shape declares, error unset, current_step "starting" and no
\* messages
C30_InitialStateComplete ==
    \A r \in DOMAIN task :
        JustBuilt(r) =>
            /\ StateShape(runs[r].run_type) \subseteq DOMAIN task[r].state
            /\ task[r].state["error"] = NONE
            /\ task[r].state["current_step"] = "starting"
            /\ task[r].state["messages"] = <<>>
(* --------------------------------------------- the two checks of failure *)
\* the check of the coroutine: if final_state.get("error")
ErrorSet(state) == Truthy(Get(state, "error", NONE))

\* the run's task holds a state of its pipeline
HoldsState(r) == task[r].pc \in {"graph", "finalize", "except"}

\* C31: in every state a stage of a run has returned, error is non-empty
\* exactly when current_step is "error", so the router ends the graph on
\* exactly the states on which the coroutine fails the Run; a Run is written
\* completed only from a state without error, after every stage of its
\* pipeline has been invoked, and a state with error is written failed
C31_ChecksAgree ==
    /\ [](\A r \in RunIds :
            HoldsState(r) =>
                /\ ErrorSet(task[r].state) <=> (task[r].state["current_step"] = "error")
                /\ (_router(task[r].state) = "end") <=> ErrorSet(task[r].state))
    /\ [][\A r \in RunIds :
            (task[r].pc = "finalize" /\ task'[r].pc = "done")
                => /\ (runs'[r].status = "failed") <=> ErrorSet(task[r].state)
                   /\ (runs'[r].status = "completed") <=> ~ErrorSet(task[r].state)
                   /\ runs'[r].status = "completed"
                        => task[r].calls = DeclaredPipeline(runs[r].run_type)]_vars

\* a discovery run that was cut short: three stages invoked, the last one
\* returned an error, and the coroutine is about to test final_state
C31_Witness ==
    \E r \in RunIds :
        /\ task[r].pc = "finalize"
        /\ runs[r].run_type = "discovery"
        /\ Len(task[r].calls) = 3
        /\ ErrorSet(task[r].state)
        /\ task[r].state["current_step"] = "error"
(* ------------------------------------------------ artifacts and commits *)
\* the runs whose pipeline exists to produce a document and that completed
CompletedWithDocument ==
    {r \in RunIds : runs[r].status = "completed" /\ runs[r].run_type \in {"deep_dive", "paper"}}

\* C32: the artifacts table grows only in the step that commits a deep-dive
\* or paper run as completed, and by one row; so there are as many artifacts
\* as completed deep-dive and paper runs, none for a failed run and none for
\* a discovery run
C32_ArtifactWithCompletion ==
    /\ [](Len(artifacts) = Cardinality(CompletedWithDocument))
    /\ [][/\ Len(artifacts') >= Len(artifacts)
          /\ SubSeq(artifacts', 1, Len(artifacts)) = artifacts
          /\ artifacts' # artifacts =>
                /\ Len(artifacts') = Len(artifacts) + 1
                /\ \E r \in RunIds :
                      /\ runs[r].status = "running" /\ runs'[r].status = "completed"
                      /\ runs[r].run_type \in {"deep_dive", "paper"}
          /\ \A r \in RunIds :
                (runs[r].status # runs'[r].status /\ runs'[r].status = "failed")
                    => artifacts' = artifacts
          /\ \A r \in RunIds :
                (runs[r].status # "completed" /\ runs'[r].status = "completed")
                    => Len(artifacts') = Len(artifacts) +
                          (IF runs[r].run_type = "discovery" THEN 0 ELSE 1)]_vars

\* a paper run has been committed as completed and its document is the one
\* row of the artifacts table
C32_Witness ==
    \E r \in RunIds :
        /\ runs[r].run_type = "paper"
        /\ runs[r].status = "completed"
        /\ task[r].pc = "done"
        /\ Len(artifacts) = 1
        /\ artifacts[1].artifact_type = "paper_draft"
OwnedByProcess(r) == task[r].pc # "none"

\* the step writes the cleanup's values into the row of run r
RecoveredInStep(r) ==
    /\ runs[r].status \in stale_statuses
    /\ runs'[r].status = "failed"
    /\ runs'[r].error_message = StaleMessage

StartupStep == server = "down" /\ server' = "up"

\* C35: the startup cleanup leaves every Run that is completed or failed as
\* it was: status, result, error_message and finished_at are the same after
\* the step as before it
C35_RecoveryKeepsFinishedRuns ==
    [][StartupStep =>
          \A r \in RunIds :
              runs[r].status \in terminal_statuses =>
                  /\ runs'[r].status = runs[r].status
                  /\ runs'[r].result = runs[r].result
                  /\ runs'[r].error_message = runs[r].error_message
                  /\ runs'[r].finished_at = runs[r].finished_at
                  /\ runs'[r] = runs[r]]_vars

\* a process has come up over a Run that a stage error had failed before the
\* restart, and the Run still carries the stage's message
C35_Witness ==
    \E r \in RunIds :
        /\ server = "up"
        /\ crashes = 1
        /\ ~OwnedByProcess(r)
        /\ runs[r].status = "failed"
        /\ runs[r].error_message \notin {StaleMessage, NONE}
        /\ runs[r].finished_at # NONE
(* ------------------------------------------------ the row of a Run at rest *)
\* C36: in every committed row of agent_runs, finished_at is set exactly
\* when the status is completed or failed; a failed Run has a non-empty
\* error_message and a completed Run has a null one
C36_RunRowConsistent ==
    \A r \in RunIds :
        /\ (runs[r].finished_at # NONE) <=> (runs[r].status \in terminal_statuses)
        /\ runs[r].status = "failed" => runs[r].error_message \notin {NONE, ""}
        /\ runs[r].status = "completed" => runs[r].error_message = NONE

\* a Run failed by the except-branch of its coroutine, after a stage raised
C36_Witness ==
    \E r \in RunIds :
        /\ runs[r].status = "failed"
        /\ task[r].pc = "done"
        /\ runs[r].finished_at = TIMESTAMP
        /\ runs[r].error_message \in {"TypeError", "AttributeError",
                                      "ChatGoogleGenerativeAI: no credentials"}
(* ------------------------------------------------------- writer and editor *)
\* the step in which the coroutine of run r commits its final state
CommitStep(r) == task[r].pc = "finalize" /\ task'[r].pc = "done"

ScoutReturned == stage.pc = "returned" /\ stage.node = "literature_scout"

\* C38: literature_scout called without search_queries searches with the
\* five queries made of the stripped user_query and its four suffixes; with
\* neither queries nor a non-blank user_query it returns an error and makes
\* no retrieval call; given queries, it asks the first five of them in
\* order; it never makes more than five retrieval calls
C38_QuerySelection ==
    ScoutReturned =>
        LET given == stage.input["search_queries"]
            user_query == stage.input["user_query"]
            asked == stage.out.asked
        IN  /\ Len(asked) <= 5
            /\ stage.out.searches = Len(asked)
            /\ (given = <<>> /\ user_query \notin {"", " "}) =>
                    /\ asked = <<user_query, user_query \o " survey",
                                 user_query \o " review",
                                 user_query \o " state of the art",
                                 user_query \o " recent advances">>
                    /\ ~ErrorSet(stage.out.state)
            /\ (given = <<>> /\ user_query \in {"", " "}) =>
                    /\ asked = <<>>
                    /\ ErrorSet(stage.out.state)
                    /\ stage.out.state["current_step"] = "error"
            /\ given # <<>> =>
                    /\ asked = SubSeq(given, 1, IF Len(given) < 5 THEN Len(given) ELSE 5)
                    /\ ~ErrorSet(stage.out.state)

\* the stage was called with a user_query and no search_queries and made
\* five retrieval calls
C38_Witness ==
    /\ ScoutReturned
    /\ stage.input["search_queries"] = <<>>
    /\ stage.input["user_query"] = "q"
    /\ stage.out.searches = 5
    /\ stage.out.asked[5] = "q recent advances"
(* ------------------------------------------------------------------ C39 *)
RowDeleted(r) == runs[r].status = "deleted"

\* C39: a background task that starts and does not find its Run row ends
\* there: the step leaves agent_runs, artifacts and run_events as they were,
\* the task has invoked no stage (and so made no provider or retrieval call,
\* which only stages make), and it never moves again.
C39_MissingRunEndsQuietly ==
    [][\A r \in RunIds :
          /\ (task[r].pc = "scheduled" /\ RowDeleted(r) /\ task'[r] # task[r]) =>
                /\ task'[r] = NotFoundTask
                /\ runs' = runs
                /\ artifacts' = artifacts
                /\ run_events' = run_events
          /\ task[r].pc = "not_found" => task'[r] = task[r]]_vars

\* a task has started after its project was deleted and has returned
C39_Witness ==
    \E r \in RunIds :
        /\ RowDeleted(r)
        /\ task[r].pc = "not_found"
        /\ task[r].calls = <<>>
====
